---- MODULE Spec2Model ----
(***************************************************************************)
(* Daifugo card-game server: the single-room server with a manual start    *)
(* (src/server.js, second revision, lines 410-717).  The room is the       *)
(* global `game` object; events are the websocket messages and the close   *)
(* event of each connection, plus the setTimeout callbacks.                *)
(***************************************************************************)
EXTENDS Integers, Sequences, FiniteSets, TLC

\* ------------------------------------------------------------------ bounds
\* connections that ever open during a run (ids 1..MaxConn, never reused)
MaxConn == 3
\* the deck is cut down to the first NumSuits suits and NumRanks ranks from "8"
NumSuits == 1
NumRanks == 2
\* the longest card list a client sends in one playCards message
MaxAttempt == 2
\* rounds dealt by one process (cap on gameCount)
MaxRounds == 2
\* the gameLimit a host chooses is 0 (endless) or MaxLimit
MaxLimit == 2
\* pending setTimeout callbacks of one kind
MaxPending == 1
\* the room codes the multi-room server can draw
NumCodes == 2
\* the seats one connection may hold at a time in the registry
MaxSeats == 2
\* the seated players of the table whose views are compared
ViewSeats == 3
\* the cards of the deck that shuffleAndDeal is called on
DealCards == 5
\* pending setTimeout(startNextRound) callbacks of the auto-start revision
MaxAutoStarts == 2

\* -------------------------------------------------------------- constants
\* a room seats at most four players
MaxPlayers == 4

\* --------------------------------------------------------- cards and deck
SUITS == <<"s", "h", "d", "c">>
RANKS == <<"3", "4", "5", "6", "7", "8", "9", "10", "J", "Q", "K", "A", "2">>
RANK_VALUES ==
    ("3" :> 1) @@ ("4" :> 2) @@ ("5" :> 3) @@ ("6" :> 4) @@ ("7" :> 5) @@
    ("8" :> 6) @@ ("9" :> 7) @@ ("10" :> 8) @@ ("J" :> 9) @@ ("Q" :> 10) @@
    ("K" :> 11) @@ ("A" :> 12) @@ ("2" :> 13) @@ ("joker" :> 15)

\* a.suit.localeCompare(b.suit): alphabetical order of the suit strings
SuitOrd == ("c" :> 1) @@ ("d" :> 2) @@ ("h" :> 3) @@ ("joker" :> 4) @@ ("s" :> 5)

Card(s, r) == [suit |-> s, rank |-> r]
Joker == Card("joker", "joker")

\* the suits and ranks of the bounded deck (ranks start at "8")
DeckSuits == SubSeq(SUITS, 1, NumSuits)
DeckRanks ==
    LET first == CHOOSE i \in 1..Len(RANKS) : RANKS[i] = "8"
    IN  SubSeq(RANKS, first, first + NumRanks - 1)

\* createDeck(): suit-major enumeration, the joker last
createDeck ==
    LET ns == Len(DeckSuits)
        nr == Len(DeckRanks)
    IN  [i \in 1..(ns * nr) |->
            Card(DeckSuits[((i - 1) \div nr) + 1], DeckRanks[((i - 1) % nr) + 1])]
        \o <<Joker>>

DeckSize == Len(createDeck)

\* the comparator of sortHand as a strict order
CardLess(a, b) ==
    \/ RANK_VALUES[a.rank] < RANK_VALUES[b.rank]
    \/ /\ RANK_VALUES[a.rank] = RANK_VALUES[b.rank]
       /\ SuitOrd[a.suit] < SuitOrd[b.suit]

sortHand(hand) == SortSeq(hand, CardLess)

\* the outcomes of the Fisher-Yates loop: every permutation of the deck
Shuffles(deck) ==
    {[i \in 1..Len(deck) |-> deck[p[i]]] : p \in Permutations(1..Len(deck))}

\* the deal counted from 1: card k goes to seat (k + 1) % numPlayers
DealtHandShifted(deck, seat, numPlayers) ==
    LET idx == {k \in 1..Len(deck) : k % numPlayers = seat}
        F[k \in 0..Len(deck)] ==
            IF k = 0 THEN <<>>
            ELSE IF k \in idx THEN Append(F[k - 1], deck[k]) ELSE F[k - 1]
    IN  F[Len(deck)]

\* card k (0-based) of the shuffled deck goes to seat k % numPlayers
DealtHand(deck, seat, numPlayers) ==
    LET idx == {k \in 1..Len(deck) : (k - 1) % numPlayers = seat}
        F[k \in 0..Len(deck)] ==
            IF k = 0 THEN <<>>
            ELSE IF k \in idx THEN Append(F[k - 1], deck[k]) ELSE F[k - 1]
    IN  F[Len(deck)]

\* shuffleAndDeal: the players with their new sorted hands
shuffleAndDeal(ps, deck) ==
    [i \in 1..Len(ps) |->
        [ps[i] EXCEPT !.hand = sortHand(DealtHand(deck, i - 1, Len(ps)))]]

\* ------------------------------------------------------------------ state
VARIABLES
    conn,        \* conn[c]: "idle" (not yet connected), "open", "closed"
    players,     \* game.players: sequence of player records
    gameState,   \* game.gameState
    turnIndex,   \* game.turnIndex: 0-based index into players, -1 = none
    field,       \* game.field
    lastPlay,    \* game.lastPlay (NoPlay = null)
    passCount,   \* game.passCount
    gameCount,   \* game.gameCount
    limit,       \* game.gameSettings.limit
    hostId,      \* game.gameSettings.hostId (0 = null)
    ranks,       \* game.ranks: ids in finishing order
    timers,      \* pending setTimeout callbacks, by callback
    sent,        \* the messages sent by the last handler, in order
    crashed,     \* an exception escaped a callback: the process is gone
    probe,       \* one call of a function: its arguments and its result
    rooms,       \* the multi-room server's registry: room code -> room
    roomCode     \* ws.roomCode of each connection of the multi-room server

gameVars == <<players, gameState, turnIndex, field, lastPlay, passCount,
              gameCount, limit, hostId, ranks>>
vars == <<conn, players, gameState, turnIndex, field, lastPlay, passCount,
          gameCount, limit, hostId, ranks, timers, sent, crashed, probe,
          rooms, roomCode>>

Conns == DOMAIN conn
\* the setTimeout calls: initializeGame after a series, handleCardExchange
\* after a round and after the host's decision to continue, startNextRound
ExchangeTimers == {"exchangeAfterRound", "exchangeAfterContinue"}
TimerKinds == {"initializeGame", "startNextRound"} \cup ExchangeTimers
NoPlay == [playerId |-> 0, cards |-> <<>>]
NoProbe == [playedCards |-> <<>>, playerHand |-> <<>>, field |-> <<>>, result |-> "none"]
\* the single-room server has no registry and binds no connection to a room
NoRooms == <<>>
NoBinding == <<>>

\* the cards still in the round: in a hand or on the field
CardsOut ==
    UNION {{players[i].hand[k] : k \in 1..Len(players[i].hand)} : i \in 1..Len(players)}
    \cup {field[k] : k \in 1..Len(field)}

\* all card lists a client may send, made of cards still in the round
Attempts == UNION {[1..n -> CardsOut] : n \in 0..MaxAttempt}

\* the connection is up
Live(c) == conn[c] = "open"

\* wss.clients
Clients == {c \in Conns : Live(c)}

\* ---------------------------------------------------------------- helpers
\* game.players.find(p => p.id === id): index (1-based) or 0
SeatOf(ps, id) ==
    IF \E i \in 1..Len(ps) : ps[i].id = id
    THEN CHOOSE i \in 1..Len(ps) : ps[i].id = id /\ \A j \in 1..(i - 1) : ps[j].id # id
    ELSE 0

\* game.players.findIndex(p => p.role === role): 1-based or 0
SeatWithRole(ps, role) ==
    IF \E i \in 1..Len(ps) : ps[i].role = role
    THEN CHOOSE i \in 1..Len(ps) : ps[i].role = role /\ \A j \in 1..(i - 1) : ps[j].role # role
    ELSE 0

Playing(ps) == {i \in 1..Len(ps) : ps[i].status = "playing"}

\* messages: one record per send; text names the message string
Msg(type, text, to) == [type |-> type, text |-> text, to |-> to]

\* wss.clients.forEach(c => c.send(...)): one message to every connection in
\* cs, in connection order
ToAll(type, text, cs) ==
    LET n == Cardinality(Conns)
        F[k \in 0..n] ==
            IF k = 0 THEN <<>>
            ELSE IF k \in cs THEN Append(F[k - 1], Msg(type, text, k)) ELSE F[k - 1]
    IN  F[n]

\* broadcastGameState(): an updateState to every open client
broadcastGameState(cs) == ToAll("updateState", "", cs)

\* setTimeout(callback, delay)
setTimeout(ts, kind) == [ts EXCEPT ![kind] = @ + 1]

\* the scan started at the current seat instead of the one after it
findNextPlayerFromCurrent(ps, cur) ==
    IF Len(ps) = 0 THEN -1
    ELSE IF Playing(ps) = {} THEN -1
    ELSE LET n == Len(ps)
             start == cur % n
             k == CHOOSE k \in 0..(n - 1) :
                    /\ ps[((start + k) % n) + 1].status = "playing"
                    /\ \A j \in 0..(k - 1) : ps[((start + j) % n) + 1].status # "playing"
         IN  (start + k) % n

\* findNextPlayer(): 0-based index of the next 'playing' seat after cur, or -1
findNextPlayer(ps, cur) ==
    IF Len(ps) = 0 THEN -1
    ELSE IF Playing(ps) = {} THEN -1
    ELSE LET n == Len(ps)
             start == (cur + 1) % n
             k == CHOOSE k \in 0..(n - 1) :
                    /\ ps[((start + k) % n) + 1].status = "playing"
                    /\ \A j \in 0..(k - 1) : ps[((start + j) % n) + 1].status # "playing"
         IN  (start + k) % n

\* ----------------------------------------------------------- validatePlay
SameCard(h, c) == h.suit = c.suit /\ h.rank = c.rank

\* playedCards.find(c => c.rank !== 'joker')?.rank || playedCards[0].rank
firstCardRank(playedCards) ==
    IF \E i \in 1..Len(playedCards) : playedCards[i].rank # "joker"
    THEN playedCards[CHOOSE i \in 1..Len(playedCards) :
            /\ playedCards[i].rank # "joker"
            /\ \A j \in 1..(i - 1) : playedCards[j].rank = "joker"].rank
    ELSE playedCards[1].rank

\* the validator with < for <= in the comparison with the field
validatePlayWeak(playedCards, playerHand, fld) ==
    IF Len(playedCards) = 0 THEN "empty"
    ELSE IF \E i \in 1..Len(playedCards) :
              ~ \E h \in 1..Len(playerHand) : SameCard(playerHand[h], playedCards[i])
    THEN "notInHand"
    ELSE IF \E i \in 1..Len(playedCards) :
              /\ playedCards[i].rank # "joker"
              /\ playedCards[i].rank # firstCardRank(playedCards)
    THEN "mixedRanks"
    ELSE IF Len(fld) > 0 /\ Len(playedCards) # Len(fld) THEN "countMismatch"
    ELSE IF Len(fld) > 0
            /\ RANK_VALUES[firstCardRank(playedCards)] < RANK_VALUES[firstCardRank(fld)]
    THEN "tooWeak"
    ELSE "ok"

\* the validator with the rank check in front of the membership check
validatePlayRanksFirst(playedCards, playerHand, fld) ==
    IF Len(playedCards) = 0 THEN "empty"
    ELSE IF \E i \in 1..Len(playedCards) :
              /\ playedCards[i].rank # "joker"
              /\ playedCards[i].rank # firstCardRank(playedCards)
    THEN "mixedRanks"
    ELSE IF \E i \in 1..Len(playedCards) :
              ~ \E h \in 1..Len(playerHand) : SameCard(playerHand[h], playedCards[i])
    THEN "notInHand"
    ELSE IF Len(fld) > 0 /\ Len(playedCards) # Len(fld) THEN "countMismatch"
    ELSE IF Len(fld) > 0
            /\ RANK_VALUES[firstCardRank(playedCards)] <= RANK_VALUES[firstCardRank(fld)]
    THEN "tooWeak"
    ELSE "ok"

\* the result is the reason of the first failing check, or "ok"
validatePlay(playedCards, playerHand, fld) ==
    IF Len(playedCards) = 0 THEN "empty"
    ELSE IF \E i \in 1..Len(playedCards) :
              ~ \E h \in 1..Len(playerHand) : SameCard(playerHand[h], playedCards[i])
    THEN "notInHand"
    ELSE IF \E i \in 1..Len(playedCards) :
              /\ playedCards[i].rank # "joker"
              /\ playedCards[i].rank # firstCardRank(playedCards)
    THEN "mixedRanks"
    ELSE IF Len(fld) > 0 /\ Len(playedCards) # Len(fld) THEN "countMismatch"
    ELSE IF Len(fld) > 0
            /\ RANK_VALUES[firstCardRank(playedCards)] <= RANK_VALUES[firstCardRank(fld)]
    THEN "tooWeak"
    ELSE "ok"

\* ------------------------------------------------------- room operations
\* initializeGame(): the fresh game object
initializeGame ==
    /\ players' = <<>>
    /\ gameState' = "waiting"
    /\ turnIndex' = -1
    /\ field' = <<>>
    /\ lastPlay' = NoPlay
    /\ passCount' = 0
    /\ gameCount' = 0
    /\ limit' = 0
    /\ hostId' = 0
    /\ ranks' = <<>>

\* the first turn left to the random draw even when a daifumin is seated
firstTurnRandom(daifuminIndex, r) == r

\* (daifuminIndex !== -1) ? daifuminIndex : Math.floor(Math.random() * n)
firstTurn(daifuminIndex, r) == IF daifuminIndex # -1 THEN daifuminIndex ELSE r

\* startNextRound(); with no seated player shuffleAndDeal dereferences
\* game.players[NaN] and the TypeError escapes the callback
startNextRound(before) ==
    /\ gameCount < MaxRounds
    /\ gameCount' = gameCount + 1
    /\ gameState' = "playing"
    /\ field' = <<>>
    /\ lastPlay' = NoPlay
    /\ passCount' = 0
    /\ ranks' = <<>>
    /\ UNCHANGED <<limit, hostId>>
    /\ IF Len(players) = 0
       THEN /\ crashed' = TRUE
            /\ sent' = before
            /\ UNCHANGED <<players, turnIndex>>
       ELSE \E deck \in Shuffles(createDeck), r \in 0..(Len(players) - 1) :
              LET ps1 == [i \in 1..Len(players) |->
                            [players[i] EXCEPT !.status = "playing", !.rank = 0]]
                  ps2 == shuffleAndDeal(ps1, deck)
                  daifuminIndex == SeatWithRole(ps2, "daifumin") - 1
              IN  /\ players' = ps2
                  /\ turnIndex' = firstTurn(daifuminIndex, r)
                  /\ sent' = before \o broadcastGameState(Clients)
                  /\ UNCHANGED crashed

\* hand.splice(hand.length - 2, 2): the removed cards and the rest
LastTwo(hand) == SubSeq(hand, IF Len(hand) > 2 THEN Len(hand) - 1 ELSE 1, Len(hand))
AllButLastTwo(hand) == SubSeq(hand, 1, IF Len(hand) > 2 THEN Len(hand) - 2 ELSE 0)
\* hand.splice(0, 2)
FirstTwo(hand) == SubSeq(hand, 1, IF Len(hand) > 2 THEN 2 ELSE Len(hand))
AllButFirstTwo(hand) == SubSeq(hand, 3, Len(hand))

\* handleCardExchange(); ts: the pending timers once this callback was taken
handleCardExchange(ts) ==
    LET daifugo == SeatWithRole(players, "daifugo")
        daifumin == SeatWithRole(players, "daifumin")
    IN  IF daifugo = 0 \/ daifumin = 0 \/ Len(players) < 2
        THEN /\ startNextRound(<<>>)
             /\ timers' = ts
        ELSE LET minSorted == sortHand(players[daifumin].hand)
                 cardsToGive == LastTwo(minSorted)
                 minRest == AllButLastTwo(minSorted)
                 goSorted == sortHand(players[daifugo].hand \o cardsToGive)
                 cardsToReturn == FirstTwo(goSorted)
                 goRest == AllButFirstTwo(goSorted)
             IN  /\ ts["startNextRound"] < MaxPending
                 /\ timers' = setTimeout(ts, "startNextRound")
                 /\ players' = [players EXCEPT
                        ![daifugo].hand = sortHand(goRest),
                        ![daifumin].hand = sortHand(minRest \o cardsToReturn)]
                 /\ sent' = ToAll("systemMessage", "exchanged", Clients) \o broadcastGameState(Clients)
                 /\ UNCHANGED <<gameState, turnIndex, field, lastPlay, passCount,
                                gameCount, limit, hostId, ranks, crashed>>

\* ---------------------------------------------------------------- actions
Init ==
    /\ conn = [c \in 1..MaxConn |-> "idle"]
    /\ players = <<>>
    /\ gameState = "waiting"
    /\ turnIndex = -1
    /\ field = <<>>
    /\ lastPlay = NoPlay
    /\ passCount = 0
    /\ gameCount = 0
    /\ limit = 0
    /\ hostId = 0
    /\ ranks = <<>>
    /\ timers = [k \in TimerKinds |-> 0]
    /\ sent = <<>>
    /\ crashed = FALSE
    /\ probe = NoProbe
    /\ rooms = NoRooms
    /\ roomCode = NoBinding

\* wss.on('connection'): connections open in the order of their ids
Connect(c) ==
    /\ ~crashed
    /\ conn[c] = "idle"
    /\ \A d \in 1..(c - 1) : conn[d] # "idle"
    /\ conn' = [conn EXCEPT ![c] = "open"]
    /\ sent' = <<>>
    /\ UNCHANGED <<gameVars, timers, crashed, probe, rooms, roomCode>>

\* the room taken for full only beyond its seats
roomFullAbove(ps) == Len(ps) > MaxPlayers

\* game.players.length >= 4
roomFull(ps) == Len(ps) >= MaxPlayers

\* message {type: 'join', gameLimit}
Join(c, gameLimit) ==
    /\ ~crashed
    /\ Live(c)
    /\ IF SeatOf(players, c) # 0 \/ gameState # "waiting" \/ roomFull(players)
       THEN /\ sent' = IF SeatOf(players, c) = 0
                       THEN <<Msg("errorMessage", "full", c)>> ELSE <<>>
            /\ UNCHANGED gameVars
       ELSE /\ hostId' = IF Len(players) = 0 THEN c ELSE hostId
            /\ limit' = IF Len(players) = 0 THEN gameLimit ELSE limit
            /\ players' = Append(players,
                    [id |-> c, hand |-> <<>>, status |-> "playing",
                     role |-> "heimin", rank |-> 0])
            /\ sent' = ToAll("systemMessage", "joined", Clients) \o broadcastGameState(Clients)
            /\ UNCHANGED <<gameState, turnIndex, field, lastPlay, passCount,
                           gameCount, ranks>>
    /\ UNCHANGED <<conn, timers, crashed, probe, rooms, roomCode>>

\* one seated player is enough to start
enoughPlayersOne(ps) == Len(ps) >= 1

\* the negation of game.players.length < 2
enoughPlayers(ps) == Len(ps) >= 2

\* message {type: 'startGame'}
StartGame(c) ==
    /\ ~crashed
    /\ Live(c)
    /\ IF SeatOf(players, c) = 0 \/ c # hostId \/ gameState # "waiting"
       THEN /\ sent' = <<>>
            /\ UNCHANGED <<gameVars, crashed>>
       ELSE IF ~enoughPlayers(players)
       THEN /\ sent' = <<Msg("errorMessage", "needTwo", c)>>
            /\ UNCHANGED <<gameVars, crashed>>
       ELSE startNextRound(ToAll("systemMessage", "started", Clients))
    /\ UNCHANGED <<conn, timers, probe, rooms, roomCode>>

\* the guard without its test of the state
InTurnAnyState(c) ==
    /\ SeatOf(players, c) # 0
    /\ turnIndex >= 0 /\ turnIndex < Len(players)
    /\ players[turnIndex + 1].id = c

\* the guard in front of playCards, pass and continueGame
InTurn(c) ==
    /\ SeatOf(players, c) # 0
    /\ gameState = "playing"
    /\ turnIndex >= 0 /\ turnIndex < Len(players)
    /\ players[turnIndex + 1].id = c

\* data.cards.forEach(c => hand.splice(hand.findIndex(same card), 1)):
\* findIndex gives -1 for a card no longer in the hand and splice(-1, 1)
\* then removes the last card
RemoveAt(hand, i) == SubSeq(hand, 1, i - 1) \o SubSeq(hand, i + 1, Len(hand))

\* the removal guarded by `if (cardIndex > -1)`
SpliceFound(hand, c) ==
    IF \E i \in 1..Len(hand) : SameCard(hand[i], c)
    THEN RemoveAt(hand, CHOOSE i \in 1..Len(hand) :
            SameCard(hand[i], c) /\ \A j \in 1..(i - 1) : ~SameCard(hand[j], c))
    ELSE hand

SpliceCard(hand, c) ==
    IF \E i \in 1..Len(hand) : SameCard(hand[i], c)
    THEN RemoveAt(hand, CHOOSE i \in 1..Len(hand) :
            SameCard(hand[i], c) /\ \A j \in 1..(i - 1) : ~SameCard(hand[j], c))
    ELSE SubSeq(hand, 1, Len(hand) - 1)

RemoveCards(hand, cards) ==
    LET F[k \in 0..Len(cards)] ==
            IF k = 0 THEN hand ELSE SpliceCard(F[k - 1], cards[k])
    IN  F[Len(cards)]

\* the 8 looked for in the first card only
is8giriFirst(cards) == Len(cards) > 0 /\ cards[1].rank = "8"

\* data.cards.some(c => c.rank === '8')
is8giri(cards) == \E i \in 1..Len(cards) : cards[i].rank = "8"

\* the error sent to every client
sendErrorToAll(c, reason) == ToAll("errorMessage", reason, Clients)

\* ws.send({type: 'errorMessage', message: validation.message})
sendError(c, reason) == <<Msg("errorMessage", reason, c)>>

\* game.gameSettings.limit !== 0 && game.gameCount >= game.gameSettings.limit
seriesIsOver(lim, count) == lim # 0 /\ count >= lim

\* the threshold with > for >=
allPassedStrict(count, ps) == count > Cardinality(Playing(ps))

\* game.passCount >= activePlayers.length, the passer already marked 'passed'
allPassed(count, ps) == count >= Cardinality(Playing(ps))

\* the roles given when the round ends
AssignRoles(ps, rk) ==
    LET daifugo == SeatOf(ps, rk[1])
        daifumin == SeatOf(ps, rk[Len(rk)])
    IN  [i \in 1..Len(ps) |->
            [ps[i] EXCEPT !.role =
                IF i = daifumin /\ Len(ps) > 2 THEN "daifumin"
                ELSE IF i = daifugo THEN "daifugo"
                ELSE "heimin"]]

\* message {type: 'playCards', cards}
PlayCards(c, cards) ==
    /\ ~crashed
    /\ Live(c)
    /\ UNCHANGED <<conn, crashed, probe, rooms, roomCode, gameCount, limit, hostId>>
    /\ IF ~InTurn(c)
       THEN /\ sent' = <<>>
            /\ UNCHANGED <<players, gameState, turnIndex, field, lastPlay, passCount,
                           ranks, timers>>
       ELSE IF validatePlay(cards, players[turnIndex + 1].hand, field) # "ok"
       THEN /\ sent' = sendError(c, validatePlay(cards, players[turnIndex + 1].hand, field))
            /\ UNCHANGED <<players, gameState, turnIndex, field, lastPlay, passCount,
                           ranks, timers>>
       ELSE
        LET me == turnIndex + 1
            hand1 == RemoveCards(players[me].hand, cards)
            ps1 == [players EXCEPT ![me].hand = hand1, ![me].status = "playing"]
            giri == is8giri(cards)
            turn1 == IF giri THEN turnIndex ELSE findNextPlayer(ps1, turnIndex)
            msg1 == IF giri THEN ToAll("systemMessage", "8giri", Clients) ELSE <<>>
            field1 == IF giri THEN <<>> ELSE cards
            lastPlay1 == IF giri THEN NoPlay ELSE [playerId |-> c, cards |-> cards]
        IN  /\ passCount' = 0
            /\ field' = field1
            /\ lastPlay' = lastPlay1
            /\ IF Len(hand1) # 0
               THEN /\ players' = ps1
                    /\ turnIndex' = turn1
                    /\ sent' = msg1 \o broadcastGameState(Clients)
                    /\ UNCHANGED <<gameState, ranks, timers>>
               ELSE
                LET ranks2 == Append(ranks, c)
                    ps2 == [ps1 EXCEPT ![me].status = "finished", ![me].rank = Len(ranks2)]
                    msg2 == msg1 \o ToAll("systemMessage", "finished", Clients)
                    playersLeft == Playing(ps2)
                IN  IF Cardinality(playersLeft) > 1
                    THEN /\ players' = ps2
                         /\ ranks' = ranks2
                         /\ turnIndex' = findNextPlayer(ps2, turn1)
                         /\ sent' = msg2 \o broadcastGameState(Clients)
                         /\ UNCHANGED <<gameState, timers>>
                    ELSE
                     LET last == CHOOSE i \in playersLeft : TRUE
                         ranks3 == IF playersLeft = {} THEN ranks2
                                   ELSE Append(ranks2, ps2[last].id)
                         ps3 == IF playersLeft = {} THEN ps2
                                ELSE [ps2 EXCEPT ![last].status = "finished",
                                                 ![last].rank = Len(ranks3)]
                         msg3 == msg2 \o broadcastGameState(Clients)
                     IN  /\ players' = AssignRoles(ps3, ranks3)
                         /\ ranks' = ranks3
                         /\ turnIndex' = turn1
                         /\ IF seriesIsOver(limit, gameCount)
                            THEN /\ timers["initializeGame"] < MaxPending
                                 /\ gameState' = "finished"
                                 /\ sent' = msg3 \o ToAll("seriesOver", "limitReached", Clients)
                                 /\ timers' = setTimeout(timers, "initializeGame")
                            ELSE IF limit = 0
                            THEN /\ gameState' = "finished"
                                 /\ sent' = msg3 \o ToAll("showContinueModal", "", Clients \cap {hostId})
                                 /\ UNCHANGED timers
                            ELSE /\ timers["exchangeAfterRound"] < MaxPending
                                 /\ gameState' = "exchange"
                                 /\ sent' = msg3 \o ToAll("systemMessage", "exchangeNext", Clients)
                                 /\ timers' = setTimeout(timers, "exchangeAfterRound")

\* message {type: 'pass'}
Pass(c) ==
    /\ ~crashed
    /\ Live(c)
    /\ UNCHANGED <<conn, crashed, probe, rooms, roomCode, gameCount, limit, hostId, gameState, ranks, timers>>
    /\ IF ~InTurn(c)
       THEN /\ sent' = <<>>
            /\ UNCHANGED <<players, turnIndex, field, lastPlay, passCount>>
       ELSE
        LET me == turnIndex + 1
            ps1 == [players EXCEPT ![me].status = "passed"]
            passCount1 == passCount + 1
        IN  IF allPassed(passCount1, ps1)
            THEN LET ps2 == [i \in 1..Len(ps1) |->
                               IF ps1[i].rank = 0
                               THEN [ps1[i] EXCEPT !.status = "playing"] ELSE ps1[i]]
                     lastPlayerWhoPlayed == SeatOf(ps2, lastPlay.playerId)
                 IN  /\ field' = <<>>
                     /\ passCount' = 0
                     /\ players' = ps2
                     /\ turnIndex' =
                          IF lastPlayerWhoPlayed # 0
                             /\ ps2[lastPlayerWhoPlayed].status # "finished"
                          THEN lastPlayerWhoPlayed - 1
                          ELSE findNextPlayer(ps2, turnIndex)
                     /\ lastPlay' = NoPlay
                     /\ sent' = ToAll("systemMessage", "allPass", Clients)
                                \o broadcastGameState(Clients)
            ELSE /\ players' = ps1
                 /\ passCount' = passCount1
                 /\ turnIndex' = findNextPlayer(ps1, turnIndex)
                 /\ sent' = broadcastGameState(Clients)
                 /\ UNCHANGED <<field, lastPlay>>

\* message {type: 'continueGame', decision}
ContinueGame(c, decision) ==
    /\ ~crashed
    /\ Live(c)
    /\ UNCHANGED <<conn, crashed, probe, rooms, roomCode>>
    /\ IF ~InTurn(c) \/ c # hostId
       THEN /\ sent' = <<>>
            /\ UNCHANGED <<gameVars, timers>>
       ELSE IF decision
       THEN /\ timers["exchangeAfterContinue"] < MaxPending
            /\ gameState' = "exchange"
            /\ sent' = ToAll("systemMessage", "continue", Clients)
            /\ timers' = setTimeout(timers, "exchangeAfterContinue")
            /\ UNCHANGED <<players, turnIndex, field, lastPlay, passCount,
                           gameCount, limit, hostId, ranks>>
       ELSE /\ initializeGame
            /\ sent' = ToAll("seriesOver", "hostEnded", Clients) \o broadcastGameState(Clients)
            /\ UNCHANGED timers

\* ws.on('close')
Close(c) ==
    /\ ~crashed
    /\ Live(c)
    /\ conn' = [conn EXCEPT ![c] = "closed"]
    /\ UNCHANGED <<timers, crashed, probe, rooms, roomCode>>
    /\ LET playerIndex == SeatOf(players, c)
           rest == RemoveAt(players, playerIndex)
           others == Clients \ {c}
       IN  IF playerIndex = 0
           THEN /\ sent' = <<>>
                /\ UNCHANGED gameVars
           ELSE IF gameState # "waiting" /\ Len(rest) < 2
           THEN /\ initializeGame
                /\ sent' = ToAll("systemMessage", "reset", others) \o broadcastGameState(others)
           ELSE IF c = hostId /\ Len(rest) > 0
           THEN /\ players' = rest
                /\ hostId' = rest[1].id
                /\ sent' = ToAll("systemMessage", "newHost", others) \o broadcastGameState(others)
                /\ UNCHANGED <<gameState, turnIndex, field, lastPlay, passCount,
                               gameCount, limit, ranks>>
           ELSE /\ players' = rest
                /\ sent' = broadcastGameState(others)
                /\ UNCHANGED <<gameState, turnIndex, field, lastPlay, passCount,
                               gameCount, limit, hostId, ranks>>

\* setTimeout(initializeGame, 5000) fires
TimerInitializeGame ==
    /\ ~crashed
    /\ timers["initializeGame"] > 0
    /\ timers' = [timers EXCEPT !["initializeGame"] = @ - 1]
    /\ initializeGame
    /\ sent' = <<>>
    /\ UNCHANGED <<conn, crashed, probe, rooms, roomCode>>

\* setTimeout(handleCardExchange, ...) fires
TimerHandleCardExchange(kind) ==
    /\ ~crashed
    /\ timers[kind] > 0
    /\ handleCardExchange([timers EXCEPT ![kind] = @ - 1])
    /\ UNCHANGED <<conn, probe, rooms, roomCode>>

\* setTimeout(startNextRound, 3000) fires
TimerStartNextRound ==
    /\ ~crashed
    /\ timers["startNextRound"] > 0
    /\ timers' = [timers EXCEPT !["startNextRound"] = @ - 1]
    /\ startNextRound(<<>>)
    /\ UNCHANGED <<conn, probe, rooms, roomCode>>

\* The inputs of an event the handler drops before reading them are not
\* enumerated: a playCards from a connection that does not hold the turn
\* carries the empty list, a join into a non-empty room the limit 0.  The
\* decision of a continueGame is sent either way.
CardsFrom(c) == IF InTurn(c) THEN Attempts ELSE {<<>>}
LimitsFrom(c) == IF Len(players) = 0 THEN {0, MaxLimit} ELSE {0}
DecisionsFrom(c) == BOOLEAN

Next ==
    \/ \E c \in Conns : Connect(c)
    \/ \E c \in Conns : \E gameLimit \in LimitsFrom(c) : Join(c, gameLimit)
    \/ \E c \in Conns : StartGame(c)
    \/ \E c \in Conns : \E cards \in CardsFrom(c) : PlayCards(c, cards)
    \/ \E c \in Conns : Pass(c)
    \/ \E c \in Conns : \E decision \in DecisionsFrom(c) : ContinueGame(c, decision)
    \/ \E c \in Conns : Close(c)
    \/ TimerInitializeGame
    \/ \E kind \in ExchangeTimers : TimerHandleCardExchange(kind)
    \/ TimerStartNextRound

Spec == Init /\ [][Next]_vars

\* ------------------------------------------- validatePlay on drawn inputs
\* the cards the arguments are drawn from: two cards of one rank, a weaker
\* and a stronger rank, and the joker
ValCards == {Card("s", "K"), Card("s", "A"), Card("h", "A"), Card("s", "2"), Joker}
ValAttempts == UNION {[1..n -> ValCards] : n \in 0..MaxAttempt}
\* a hand holds no card twice and is kept sorted
ValHands == {sortHand(h) : h \in {a \in UNION {[1..n -> ValCards] : n \in 0..Cardinality(ValCards)} :
                \A i, j \in 1..Len(a) : i < j => CardLess(a[i], a[j])}}
\* the field is empty or a list that was accepted onto an empty field
ValFields == {f \in ValAttempts : f = <<>> \/ validatePlay(f, f, <<>>) = "ok"}

InitValidate ==
    /\ conn = [c \in 1..MaxConn |-> "idle"]
    /\ players = <<>>
    /\ gameState = "waiting"
    /\ turnIndex = -1
    /\ field = <<>>
    /\ lastPlay = NoPlay
    /\ passCount = 0
    /\ gameCount = 0
    /\ limit = 0
    /\ hostId = 0
    /\ ranks = <<>>
    /\ timers = [k \in TimerKinds |-> 0]
    /\ sent = <<>>
    /\ crashed = FALSE
    /\ probe \in {[playedCards |-> a, playerHand |-> h, field |-> f, result |-> "none"] :
                    a \in ValAttempts, h \in ValHands, f \in ValFields}
    /\ rooms = NoRooms
    /\ roomCode = NoBinding

Validate ==
    /\ probe.result = "none"
    /\ probe' = [probe EXCEPT !.result =
                    validatePlay(probe.playedCards, probe.playerHand, probe.field)]
    /\ UNCHANGED <<conn, gameVars, timers, sent, crashed, rooms, roomCode>>

NextValidate == Validate

SpecValidate == InitValidate /\ [][NextValidate]_vars

\* ------------------------------------------- a four-player table in play
\* one outcome of the shuffle of the seven-card deck 8s 9s 10s 8h 9h 10h joker
TableShuffle ==
    <<Card("s", "9"), Card("s", "8"), Card("s", "10"), Card("h", "9"),
      Joker, Card("h", "8"), Card("h", "10")>>

\* the room after MaxPlayers connections joined an endless series and the
\* host started the first round
InitTable ==
    /\ conn = [c \in 1..MaxPlayers |-> "open"]
    /\ players = shuffleAndDeal(
                    [i \in 1..MaxPlayers |->
                        [id |-> i, hand |-> <<>>, status |-> "playing",
                         role |-> "heimin", rank |-> 0]],
                    TableShuffle)
    /\ gameState = "playing"
    /\ turnIndex \in 0..(MaxPlayers - 1)
    /\ field = <<>>
    /\ lastPlay = NoPlay
    /\ passCount = 0
    /\ gameCount = 1
    /\ limit = 0
    /\ hostId = 1
    /\ ranks = <<>>
    /\ timers = [k \in TimerKinds |-> 0]
    /\ sent = ToAll("systemMessage", "started", 1..MaxPlayers)
              \o broadcastGameState(1..MaxPlayers)
    /\ crashed = FALSE
    /\ probe = NoProbe
    /\ rooms = NoRooms
    /\ roomCode = NoBinding

NextTable ==
    \/ \E c \in Conns : \E cards \in CardsFrom(c) : PlayCards(c, cards)
    \/ \E c \in Conns : Pass(c)
    \/ \E c \in Conns : Close(c)

SpecTable == InitTable /\ [][NextTable]_vars

\* ------------------------------------------------- the lobby of the room
\* one connection more than the room has seats
LobbyConns == MaxPlayers + 1

InitLobby ==
    /\ conn = [c \in 1..LobbyConns |-> "idle"]
    /\ players = <<>>
    /\ gameState = "waiting"
    /\ turnIndex = -1
    /\ field = <<>>
    /\ lastPlay = NoPlay
    /\ passCount = 0
    /\ gameCount = 0
    /\ limit = 0
    /\ hostId = 0
    /\ ranks = <<>>
    /\ timers = [k \in TimerKinds |-> 0]
    /\ sent = <<>>
    /\ crashed = FALSE
    /\ probe = NoProbe
    /\ rooms = NoRooms
    /\ roomCode = NoBinding

\* connections come, join, leave; the host starts the first round
NextLobby ==
    \/ \E c \in Conns : Connect(c)
    \/ \E c \in Conns : \E gameLimit \in LimitsFrom(c) : Join(c, gameLimit)
    \/ \E c \in Conns : StartGame(c)
    \/ \E c \in Conns : Close(c)

SpecLobby == InitLobby /\ [][NextLobby]_vars

\* ------------------------- findNextPlayer and shuffleAndDeal on drawn inputs
\* a player record with a status and a hand
PlayerWith(id, status, hand) ==
    [id |-> id, hand |-> hand, status |-> status, role |-> "heimin", rank |-> 0]

\* the rosters findNextPlayer is called on: up to MaxPlayers players, each
\* 'playing', 'passed' or 'finished'
CallRosters ==
    UNION {{[i \in 1..n |-> PlayerWith(i, st[i], <<>>)] :
                st \in [1..n -> {"playing", "passed", "finished"}]} : n \in 0..MaxPlayers}

\* game.turnIndex at the call: the sentinel, a seat, or the index one past
\* the last seat that a disconnect leaves behind
CallIndexes(ps) == -1..Len(ps)

\* the deck shuffleAndDeal is called on
DealDeck == SubSeq(TableShuffle, 1, DealCards)

\* the players at the call hold what is left of the round before
DealRosters ==
    {[i \in 1..n |-> PlayerWith(i, "playing", IF i = 1 THEN <<>> ELSE <<Joker>>)] : n \in 2..MaxPlayers}

InitCalls ==
    /\ conn = [c \in 1..MaxConn |-> "idle"]
    /\ players = <<>>
    /\ gameState = "waiting"
    /\ turnIndex = -1
    /\ field = <<>>
    /\ lastPlay = NoPlay
    /\ passCount = 0
    /\ gameCount = 0
    /\ limit = 0
    /\ hostId = 0
    /\ ranks = <<>>
    /\ timers = [k \in TimerKinds |-> 0]
    /\ sent = <<>>
    /\ crashed = FALSE
    /\ probe \in {[call |-> "findNextPlayer", players |-> ps, turnIndex |-> cur,
                   done |-> FALSE, result |-> -1, after |-> ps] :
                     ps \in CallRosters, cur \in -1..MaxPlayers}
                 \cup
                 {[call |-> "shuffleAndDeal", players |-> ps, deck |-> deck,
                   done |-> FALSE, after |-> ps] :
                     ps \in DealRosters, deck \in Shuffles(DealDeck)}
    /\ probe.call = "findNextPlayer" => probe.turnIndex \in CallIndexes(probe.players)
    /\ rooms = NoRooms
    /\ roomCode = NoBinding

\* one call of findNextPlayer(): the index returned and the players after it
CallFindNextPlayer ==
    /\ probe.call = "findNextPlayer" /\ ~probe.done
    /\ probe' = [probe EXCEPT !.done = TRUE,
                    !.result = findNextPlayer(probe.players, probe.turnIndex),
                    !.after = probe.players]
    /\ UNCHANGED <<conn, gameVars, timers, sent, crashed, rooms, roomCode>>

\* one call of shuffleAndDeal, the shuffle having produced probe.deck
CallShuffleAndDeal ==
    /\ probe.call = "shuffleAndDeal" /\ ~probe.done
    /\ probe' = [probe EXCEPT !.done = TRUE,
                    !.after = shuffleAndDeal(probe.players, probe.deck)]
    /\ UNCHANGED <<conn, gameVars, timers, sent, crashed, rooms, roomCode>>

NextCalls ==
    \/ CallFindNextPlayer
    \/ CallShuffleAndDeal

SpecCalls == InitCalls /\ [][NextCalls]_vars

\* ------------------------------------------ what a client is told (view)
\* one entry of the players list of an updateState sent to a seated client
\* with the hand itself beside its size
playerEntryWithHand(ps, ti, host, i) ==
    [id |-> ps[i].id, handCount |-> Len(ps[i].hand), hand |-> ps[i].hand,
     isTurn |-> ti >= 0 /\ ti < Len(ps) /\ ps[ti + 1].id = ps[i].id,
     role |-> ps[i].role, rank |-> ps[i].rank, status |-> ps[i].status,
     isHost |-> host = ps[i].id]

\* game.players.map(p => ({id, name, handCount, isTurn, role, rank, status,
\* isHost})): one entry (the model has no names)
playerEntry(ps, ti, host, i) ==
    [id |-> ps[i].id, handCount |-> Len(ps[i].hand),
     isTurn |-> ti >= 0 /\ ti < Len(ps) /\ ps[ti + 1].id = ps[i].id,
     role |-> ps[i].role, rank |-> ps[i].rank, status |-> ps[i].status,
     isHost |-> host = ps[i].id]

\* personalizedState of broadcastGameState() for the client with this id:
\* the seated client's view, or the roster for a client that is not seated
personalizedState(ps, gs, fld, ti, host, lim, id) ==
    LET player == SeatOf(ps, id)
    IN  IF player # 0
        THEN [type |-> "updateState",
              gameState |-> gs,
              field |-> fld,
              players |-> [i \in 1..Len(ps) |-> playerEntry(ps, ti, host, i)],
              myHand |-> ps[player].hand,
              myId |-> ps[player].id,
              isHost |-> host = ps[player].id,
              gameSettings |-> [limit |-> lim, hostId |-> host]]
        ELSE [type |-> "updateState",
              gameState |-> "waiting",
              players |-> [i \in 1..Len(ps) |->
                             [id |-> ps[i].id, isHost |-> host = ps[i].id]],
              myId |-> 0,
              isHost |-> FALSE]

\* getGameStateForPlayer(room, playerId) of the multi-room server
getGameStateForPlayer(room, playerId) ==
    LET player == SeatOf(room.players, playerId)
    IN  [type |-> "updateState",
         roomCode |-> room.code,
         gameState |-> room.gameState,
         field |-> room.field,
         players |-> [i \in 1..Len(room.players) |->
                        playerEntry(room.players, room.turnIndex, room.hostId, i)],
         myHand |-> IF player # 0 THEN room.players[player].hand ELSE <<>>,
         myId |-> playerId,
         isHost |-> room.hostId = playerId,
         gameSettings |-> [limit |-> room.limit, hostId |-> room.hostId]]

\* client.send(JSON.stringify(personalizedState)) for every open client, in
\* connection order: the message and the state it carries
sendStates(cs) ==
    LET n == Cardinality(Conns)
        F[k \in 0..n] ==
            IF k = 0 THEN <<>>
            ELSE IF k \in cs
            THEN Append(F[k - 1],
                    [type |-> "updateState", text |-> "", to |-> k,
                     state |-> personalizedState(players, gameState, field,
                                                 turnIndex, hostId, limit, k)])
            ELSE F[k - 1]
    IN  F[n]

\* one call of broadcastGameState() on the room as it stands
BroadcastGameState ==
    /\ ~crashed
    /\ sent' = sendStates(Clients)
    /\ UNCHANGED <<conn, gameVars, timers, crashed, probe, rooms, roomCode>>

\* three connections joined an endless series and the host started the first
\* round on the seven-card deck; one more connection came after the start
InitView ==
    /\ conn = [c \in 1..(ViewSeats + 1) |-> "open"]
    /\ players = shuffleAndDeal(
                    [i \in 1..ViewSeats |->
                        [id |-> i, hand |-> <<>>, status |-> "playing",
                         role |-> "heimin", rank |-> 0]],
                    TableShuffle)
    /\ gameState = "playing"
    /\ turnIndex \in 0..(ViewSeats - 1)
    /\ field = <<>>
    /\ lastPlay = NoPlay
    /\ passCount = 0
    /\ gameCount = 1
    /\ limit = 0
    /\ hostId = 1
    /\ ranks = <<>>
    /\ timers = [k \in TimerKinds |-> 0]
    /\ sent = <<>>
    /\ crashed = FALSE
    /\ probe = NoProbe
    /\ rooms = NoRooms
    /\ roomCode = NoBinding

NextView ==
    \/ \E c \in Conns : \E cards \in CardsFrom(c) : PlayCards(c, cards)
    \/ \E c \in Conns : Pass(c)
    \/ \E c \in Conns : Close(c)
    \/ BroadcastGameState

SpecView == InitView /\ [][NextView]_vars

\* ------------------------------------- the auto-start revision of the server
\* (src/server.js, lines 1-234 and 236-409: a round is started two seconds
\* after a join that leaves two or more players seated)
\* resetGame(false): the fresh game object, nobody seated
resetGame ==
    /\ players' = <<>>
    /\ gameState' = "waiting"
    /\ turnIndex' = -1
    /\ field' = <<>>
    /\ lastPlay' = NoPlay
    /\ passCount' = 0
    /\ gameCount' = 0
    /\ limit' = 0
    /\ hostId' = 0
    /\ ranks' = <<>>

\* message {type: 'join', gameLimit} of the auto-start revision
JoinAuto(c, gameLimit) ==
    /\ ~crashed
    /\ Live(c)
    /\ UNCHANGED <<conn, crashed, probe, rooms, roomCode>>
    /\ IF SeatOf(players, c) # 0
       THEN /\ sent' = <<>>
            /\ UNCHANGED <<gameVars, timers>>
       ELSE IF gameState # "waiting" \/ roomFull(players)
       THEN /\ sent' = <<Msg("errorMessage", "full", c)>>
            /\ UNCHANGED <<gameVars, timers>>
       ELSE LET first == Len(players) = 0
                ps1 == Append(players,
                          [id |-> c, hand |-> <<>>, status |-> "playing",
                           role |-> "heimin", rank |-> 0])
            IN  /\ players' = ps1
                /\ hostId' = IF first THEN c ELSE hostId
                /\ limit' = IF first THEN gameLimit ELSE limit
                /\ gameCount' = IF first THEN 0 ELSE gameCount
                /\ turnIndex' = IF first THEN -1 ELSE turnIndex
                /\ field' = IF first THEN <<>> ELSE field
                /\ lastPlay' = IF first THEN NoPlay ELSE lastPlay
                /\ passCount' = IF first THEN 0 ELSE passCount
                /\ ranks' = IF first THEN <<>> ELSE ranks
                /\ UNCHANGED gameState
                /\ IF Len(ps1) >= 2 /\ Len(ps1) <= MaxPlayers
                   THEN /\ timers["startNextRound"] < MaxAutoStarts
                        /\ timers' = setTimeout(timers, "startNextRound")
                        /\ sent' = broadcastGameState(Clients)
                                   \o ToAll("systemMessage", "gathered", Clients)
                   ELSE /\ sent' = broadcastGameState(Clients)
                        /\ UNCHANGED timers

\* ws.on('close') of the auto-start revision
CloseAuto(c) ==
    /\ ~crashed
    /\ Live(c)
    /\ conn' = [conn EXCEPT ![c] = "closed"]
    /\ UNCHANGED <<timers, crashed, probe, rooms, roomCode>>
    /\ LET playerIndex == SeatOf(players, c)
           rest == RemoveAt(players, playerIndex)
           others == Clients \ {c}
           msgHost == IF c = hostId /\ Len(rest) > 0
                      THEN ToAll("systemMessage", "newHost", others) ELSE <<>>
       IN  IF playerIndex = 0
           THEN /\ sent' = <<>>
                /\ UNCHANGED gameVars
           ELSE IF Len(rest) < 2 /\ gameState # "waiting"
           THEN /\ resetGame
                /\ sent' = msgHost \o ToAll("systemMessage", "reset", others)
                           \o broadcastGameState(others)
           ELSE /\ players' = rest
                /\ hostId' = IF c = hostId /\ Len(rest) > 0 THEN rest[1].id ELSE hostId
                /\ sent' = msgHost
                           \o broadcastGameState(IF gameState = "waiting" THEN others
                                                 ELSE {d \in others : SeatOf(rest, d) # 0})
                /\ UNCHANGED <<gameState, turnIndex, field, lastPlay, passCount,
                               gameCount, limit, ranks>>

\* connections come, join and leave; the scheduled starts fire
NextAuto ==
    \/ \E c \in Conns : Connect(c)
    \/ \E c \in Conns : \E gameLimit \in LimitsFrom(c) : JoinAuto(c, gameLimit)
    \/ \E c \in Conns : CloseAuto(c)
    \/ TimerStartNextRound

SpecAuto == Init /\ [][NextAuto]_vars

\* ------------------------------------------------ the multi-room server
\* (src/unnamed/part_001, lines 219-516: a registry of rooms, each a game
\* object of its own; the win condition and the timers are not in the file)
\* the room codes generateRoomCode can draw, and ws.roomCode before it is set
RoomCodes == 1..NumCodes
NoCode == 0

\* createNewGame(), with the code the handler gives it
createNewGame(code) ==
    [code |-> code, players |-> <<>>, gameState |-> "waiting", turnIndex |-> -1,
     field |-> <<>>, lastPlay |-> NoPlay, passCount |-> 0, gameCount |-> 0,
     limit |-> 0, hostId |-> 0, ranks |-> <<>>]

\* a code drawn without looking at the registry
generateRoomCodeAny(rs) == RoomCodes

\* generateRoomCode(): the codes the loop can end with
generateRoomCode(rs) == {code \in RoomCodes : code \notin DOMAIN rs}

\* rooms.set(code, room)
SetRoom(rs, code, room) ==
    [k \in DOMAIN rs \cup {code} |-> IF k = code THEN room ELSE rs[k]]

\* rooms.delete(code)
DeleteRoom(rs, code) == [k \in DOMAIN rs \ {code} |-> rs[k]]

\* the open clients whose roomCode is code, under the binding bnd
RoomClients(cs, bnd, code) == {c \in cs : bnd[c] = code}

\* the broadcast without the test of client.roomCode
broadcastToEveryRoom(rs, cs, bnd, code, type, text) ==
    IF code \notin DOMAIN rs THEN <<>>
    ELSE ToAll(type, text, cs)

\* broadcastToRoom(roomCode, generator): nothing if the room is not registered
broadcastToRoom(rs, cs, bnd, code, type, text) ==
    IF code \notin DOMAIN rs THEN <<>>
    ELSE ToAll(type, text, RoomClients(cs, bnd, code))

\* a new player record
newPlayer(id) ==
    [id |-> id, hand |-> <<>>, status |-> "playing", role |-> "heimin", rank |-> 0]

\* startNextRound(room) for one outcome of the shuffle and of the random seat
roomStartNextRound(room, deck, r) ==
    LET ps1 == [i \in 1..Len(room.players) |->
                  [room.players[i] EXCEPT !.status = "playing", !.rank = 0]]
        ps2 == shuffleAndDeal(ps1, deck)
        daifuminIndex == SeatWithRole(ps2, "daifumin") - 1
    IN  [room EXCEPT !.gameCount = @ + 1, !.gameState = "playing", !.field = <<>>,
                     !.lastPlay = NoPlay, !.passCount = 0, !.ranks = <<>>,
                     !.players = ps2, !.turnIndex = firstTurn(daifuminIndex, r)]

\* the room after an accepted playCards of the player at seat me
roomPlayCards(room, me, cards) ==
    LET hand1 == RemoveCards(room.players[me].hand, cards)
        ps1 == [room.players EXCEPT ![me].hand = hand1, ![me].status = "playing"]
    IN  IF is8giri(cards)
        THEN [room EXCEPT !.players = ps1, !.field = <<>>, !.lastPlay = NoPlay,
                          !.passCount = 0]
        ELSE [room EXCEPT !.players = ps1, !.field = cards,
                          !.lastPlay = [playerId |-> ps1[me].id, cards |-> cards],
                          !.passCount = 0,
                          !.turnIndex = findNextPlayer(ps1, room.turnIndex)]

\* the room after a pass of the player at seat me
roomPass(room, me) ==
    LET ps1 == [room.players EXCEPT ![me].status = "passed"]
        passCount1 == room.passCount + 1
        ps2 == [i \in 1..Len(ps1) |->
                  IF ps1[i].rank = 0 THEN [ps1[i] EXCEPT !.status = "playing"] ELSE ps1[i]]
        lastPlayer == SeatOf(ps2, room.lastPlay.playerId)
    IN  IF allPassed(passCount1, ps1)
        THEN [room EXCEPT !.players = ps2, !.field = <<>>, !.passCount = 0,
                          !.lastPlay = NoPlay,
                          !.turnIndex =
                              IF lastPlayer # 0 /\ ps2[lastPlayer].status # "finished"
                              THEN lastPlayer - 1
                              ELSE findNextPlayer(ps2, room.turnIndex)]
        ELSE [room EXCEPT !.players = ps1, !.passCount = passCount1,
                          !.turnIndex = findNextPlayer(ps1, room.turnIndex)]

\* the cards of a room, and the card lists a client may send
RoomCards(room) ==
    UNION {{room.players[i].hand[k] : k \in 1..Len(room.players[i].hand)} :
              i \in 1..Len(room.players)}
    \cup {room.field[k] : k \in 1..Len(room.field)}
RoomAttempts(room) == UNION {[1..n -> RoomCards(room)] : n \in 0..MaxAttempt}

\* the guards in front of the in-room handlers: the connection's room is
\* registered and the connection is seated in it
InRoom(c) ==
    /\ roomCode[c] \in DOMAIN rooms
    /\ SeatOf(rooms[roomCode[c]].players, c) # 0

\* the guard in front of playCards and pass
RoomInTurn(c) ==
    /\ InRoom(c)
    /\ LET room == rooms[roomCode[c]]
       IN  /\ room.gameState = "playing"
           /\ room.turnIndex >= 0 /\ room.turnIndex < Len(room.players)
           /\ room.players[room.turnIndex + 1].id = c

\* the seats connection c holds in the registered rooms
SeatsOf(c) ==
    LET codes == DOMAIN rooms
        F[k \in 0..NumCodes] ==
            IF k = 0 THEN 0
            ELSE F[k - 1] + (IF k \in codes
                             THEN Cardinality({i \in 1..Len(rooms[k].players) :
                                                 rooms[k].players[i].id = c})
                             ELSE 0)
    IN  F[NumCodes]

roomFrame == <<gameVars, timers, crashed, probe>>

InitRooms ==
    /\ conn = [c \in 1..MaxConn |-> "idle"]
    /\ players = <<>>
    /\ gameState = "waiting"
    /\ turnIndex = -1
    /\ field = <<>>
    /\ lastPlay = NoPlay
    /\ passCount = 0
    /\ gameCount = 0
    /\ limit = 0
    /\ hostId = 0
    /\ ranks = <<>>
    /\ timers = [k \in TimerKinds |-> 0]
    /\ sent = <<>>
    /\ crashed = FALSE
    /\ probe = NoProbe
    /\ rooms = NoRooms
    /\ roomCode = [c \in 1..MaxConn |-> NoCode]

\* message {type: 'createRoom', gameLimit}
CreateRoom(c, gameLimit) ==
    /\ Live(c)
    /\ \E code \in generateRoomCode(rooms) :
         LET newRoom == [createNewGame(code) EXCEPT
                            !.players = <<newPlayer(c)>>,
                            !.hostId = c, !.limit = gameLimit]
         IN  /\ rooms' = SetRoom(rooms, code, newRoom)
             /\ roomCode' = [roomCode EXCEPT ![c] = code]
             /\ sent' = <<Msg("updateState", "", c)>>
    /\ UNCHANGED <<conn, roomFrame>>

\* message {type: 'joinRoom', roomCode}
JoinRoom(c, code) ==
    /\ Live(c)
    /\ UNCHANGED <<conn, roomFrame>>
    /\ IF code \notin DOMAIN rooms
       THEN /\ sent' = <<Msg("errorMessage", "notFound", c)>>
            /\ UNCHANGED <<rooms, roomCode>>
       ELSE IF roomFull(rooms[code].players)
       THEN /\ sent' = <<Msg("errorMessage", "full", c)>>
            /\ UNCHANGED <<rooms, roomCode>>
       ELSE IF rooms[code].gameState # "waiting"
       THEN /\ sent' = <<Msg("errorMessage", "begun", c)>>
            /\ UNCHANGED <<rooms, roomCode>>
       ELSE /\ rooms' = [rooms EXCEPT ![code].players = Append(@, newPlayer(c))]
            /\ roomCode' = [roomCode EXCEPT ![c] = code]
            /\ sent' = broadcastToRoom(rooms', Clients, roomCode', code, "systemMessage", "joined")
                       \o broadcastToRoom(rooms', Clients, roomCode', code, "updateState", "")

\* message {type: 'startGame'}: no return after the start, the turn guard
\* then drops the message
RoomStartGame(c) ==
    /\ Live(c)
    /\ UNCHANGED <<conn, roomCode, roomFrame>>
    /\ IF ~InRoom(c)
       THEN sent' = <<>> /\ UNCHANGED rooms
       ELSE LET code == roomCode[c]
                room == rooms[code]
            IN  IF c # room.hostId \/ room.gameState # "waiting" \/ ~enoughPlayers(room.players)
                THEN sent' = <<>> /\ UNCHANGED rooms
                ELSE /\ room.gameCount < MaxRounds
                     /\ \E deck \in Shuffles(createDeck), r \in 0..(Len(room.players) - 1) :
                           rooms' = [rooms EXCEPT ![code] = roomStartNextRound(room, deck, r)]
                     /\ sent' = broadcastToRoom(rooms, Clients, roomCode, code, "systemMessage", "started")
                                \o broadcastToRoom(rooms, Clients, roomCode, code, "updateState", "")

\* message {type: 'playCards', cards}
RoomPlayCards(c, cards) ==
    /\ Live(c)
    /\ UNCHANGED <<conn, roomCode, roomFrame>>
    /\ IF ~RoomInTurn(c)
       THEN sent' = <<>> /\ UNCHANGED rooms
       ELSE LET code == roomCode[c]
                room == rooms[code]
                me == SeatOf(room.players, c)
            IN  IF validatePlay(cards, room.players[me].hand, room.field) # "ok"
                THEN /\ sent' = sendError(c, validatePlay(cards, room.players[me].hand, room.field))
                     /\ UNCHANGED rooms
                ELSE /\ rooms' = [rooms EXCEPT ![code] = roomPlayCards(room, me, cards)]
                     /\ sent' = (IF is8giri(cards)
                                 THEN broadcastToRoom(rooms, Clients, roomCode, code, "systemMessage", "8giri")
                                 ELSE <<>>)
                                \o broadcastToRoom(rooms, Clients, roomCode, code, "updateState", "")

\* message {type: 'pass'}
RoomPass(c) ==
    /\ Live(c)
    /\ UNCHANGED <<conn, roomCode, roomFrame>>
    /\ IF ~RoomInTurn(c)
       THEN sent' = <<>> /\ UNCHANGED rooms
       ELSE LET code == roomCode[c]
                room == rooms[code]
                me == SeatOf(room.players, c)
                ps1 == [room.players EXCEPT ![me].status = "passed"]
            IN  /\ rooms' = [rooms EXCEPT ![code] = roomPass(room, me)]
                /\ sent' = (IF allPassed(room.passCount + 1, ps1)
                            THEN broadcastToRoom(rooms, Clients, roomCode, code, "systemMessage", "allPass")
                            ELSE <<>>)
                           \o broadcastToRoom(rooms, Clients, roomCode, code, "updateState", "")

\* ws.on('close')
RoomClose(c) ==
    /\ Live(c)
    /\ conn' = [conn EXCEPT ![c] = "closed"]
    /\ UNCHANGED <<roomCode, roomFrame>>
    /\ IF ~InRoom(c)
       THEN sent' = <<>> /\ UNCHANGED rooms
       ELSE LET code == roomCode[c]
                room == rooms[code]
                rest == RemoveAt(room.players, SeatOf(room.players, c))
                others == Clients \ {c}
                left == broadcastToRoom(rooms, others, roomCode, code, "systemMessage", "left")
                host1 == IF c = room.hostId THEN rest[1].id ELSE room.hostId
                msgHost == IF c = room.hostId
                           THEN broadcastToRoom(rooms, others, roomCode, code, "systemMessage", "newHost")
                           ELSE <<>>
                room1 == [room EXCEPT !.players = rest, !.hostId = host1]
            IN  IF Len(rest) = 0
                THEN /\ rooms' = DeleteRoom(rooms, code)
                     /\ sent' = left
                ELSE IF room.gameState # "waiting" /\ Len(rest) < 2
                THEN /\ rooms' = [rooms EXCEPT ![code] =
                                    [createNewGame(code) EXCEPT
                                        !.players = rest, !.hostId = host1,
                                        !.limit = room.limit]]
                     /\ sent' = left \o msgHost
                                \o broadcastToRoom(rooms, others, roomCode, code, "systemMessage", "reset")
                                \o broadcastToRoom(rooms, others, roomCode, code, "updateState", "")
                ELSE /\ rooms' = [rooms EXCEPT ![code] = room1]
                     /\ sent' = left \o msgHost
                                \o broadcastToRoom(rooms, others, roomCode, code, "updateState", "")

\* the card lists of a playCards worth sending: a connection that does not
\* hold the turn in its room is dropped whatever it sends
RoomCardsFrom(c) == IF RoomInTurn(c) THEN RoomAttempts(rooms[roomCode[c]]) ELSE {<<>>}

\* the clients of SpecRooms ask for a room once: they send createRoom and
\* joinRoom only as long as their connection has no roomCode
NextRooms ==
    \/ \E c \in Conns : Connect(c)
    \/ \E c \in Conns : \E gameLimit \in {0, MaxLimit} :
          roomCode[c] = NoCode /\ CreateRoom(c, gameLimit)
    \/ \E c \in Conns : \E code \in RoomCodes :
          roomCode[c] = NoCode /\ JoinRoom(c, code)
    \/ \E c \in Conns : RoomStartGame(c)
    \/ \E c \in Conns : \E cards \in RoomCardsFrom(c) : RoomPlayCards(c, cards)
    \/ \E c \in Conns : RoomPass(c)
    \/ \E c \in Conns : RoomClose(c)

SpecRooms == InitRooms /\ [][NextRooms]_vars

\* the registry alone: any connection may send createRoom and joinRoom again
\* and again, up to MaxSeats seats; no round is started
NextRegistry ==
    \/ \E c \in Conns : Connect(c)
    \/ \E c \in Conns : \E gameLimit \in {0, MaxLimit} :
          SeatsOf(c) < MaxSeats /\ CreateRoom(c, gameLimit)
    \/ \E c \in Conns : \E code \in RoomCodes :
          SeatsOf(c) < MaxSeats /\ JoinRoom(c, code)
    \/ \E c \in Conns : RoomClose(c)

SpecRegistry == InitRooms /\ [][NextRegistry]_vars

\* ------------------------------------------------------------ properties
Min(a, b) == IF a < b THEN a ELSE b

\* the number of cards in all hands
HandTotal(ps) ==
    LET F[k \in 0..Len(ps)] == IF k = 0 THEN 0 ELSE F[k - 1] + Len(ps[k].hand)
    IN  F[Len(ps)]

NoneClosed == \A c \in Conns : conn[c] # "closed"

\* the hand of the player holding the turn
TurnHand == players[turnIndex + 1].hand

\* connection c is up and is the turn-holder of a round in play
HoldsTurn(c) ==
    /\ conn[c] = "open"
    /\ gameState = "playing"
    /\ turnIndex \in 0..(Len(players) - 1)
    /\ players[turnIndex + 1].id = c

\* the seats other than the turn-holder's whose player has status 'playing'
OthersPlaying == {i \in 1..Len(players) : i # turnIndex + 1 /\ players[i].status = "playing"}

\* the first seat (0-based) with status 'playing' met when going round the
\* table from the seat after `from`, or -1
NextPlayingSeat(ps, from) ==
    LET n == Len(ps)
        cand == {t \in 0..(n - 1) : ps[t + 1].status = "playing"}
    IN  IF cand = {} THEN -1
        ELSE CHOOSE t \in cand :
                \A u \in cand : (t - from - 1) % n <= (u - from - 1) % n

\* C1: during a round (gameState 'playing') turnIndex is the sentinel -1 or
\* a valid index into players whose player has status 'playing', also
\* right after a disconnect removed a player.  (The claim speaks of every
\* reachable state; already the states of a round in play refute it.)
C1_TurnHolderPlaying ==
    (gameState = "playing" /\ turnIndex # -1) =>
        /\ turnIndex \in 0..(Len(players) - 1)
        /\ players[turnIndex + 1].status = "playing"

C3_RejectChangesNothing ==
    [][\A c \in Conns : HoldsTurn(c) =>
         \A cards \in Attempts :
            (validatePlay(cards, TurnHand, field) # "ok" /\ PlayCards(c, cards)) =>
                /\ UNCHANGED <<gameVars, timers>>
                /\ Len(sent') = 1
                /\ sent'[1].type = "errorMessage"
                /\ sent'[1].to = c
      ]_vars

\* the turn-holder has just been told that its cards are too weak, with a
\* spectator connected
C3_Rejected ==
    /\ gameState = "playing"
    /\ turnIndex \in 0..(Len(players) - 1)
    /\ Cardinality(Clients) > Len(players)
    /\ sent = <<Msg("errorMessage", "tooWeak", players[turnIndex + 1].id)>>

\* C4: a playCards or a pass from a connection that is not seated, or is
\* seated but does not hold the turn, or sent while the state is not
\* 'playing', changes nothing in the room and sends nothing to anybody else.
C4_IneligibleIgnored ==
    [][\A c \in Conns :
         (/\ conn[c] = "open"
          /\ \/ \A i \in 1..Len(players) : players[i].id # c
             \/ gameState # "playing"
             \/ turnIndex \notin 0..(Len(players) - 1)
             \/ players[turnIndex + 1].id # c
          /\ \/ Pass(c)
             \/ \E cards \in Attempts : PlayCards(c, cards)) =>
            /\ UNCHANGED <<gameVars, timers>>
            /\ \A k \in 1..Len(sent') : sent'[k].to = c
      ]_vars

\* a round in play with three seated players, all connected, where the last
\* event was dropped without an answer
C4_Ignored ==
    /\ gameState = "playing"
    /\ Len(players) = 3
    /\ \A i \in 1..Len(players) : conn[players[i].id] = "open"
    /\ turnIndex \in 0..(Len(players) - 1)
    /\ sent = <<>>

\* how often a card occurs in a list
Count(cards, c) == Cardinality({i \in 1..Len(cards) : SameCard(cards[i], c)})

\* C5: validatePlay rejects every attempt that lists a card more often than
\* the hand holds it: a card that is not in the hand, or the same card twice
\* when the hand has it once.
C5_RejectsOverdraw ==
    (/\ probe.result # "none"
     /\ \E i \in 1..Len(probe.playedCards) :
            Count(probe.playedCards, probe.playedCards[i])
                > Count(probe.playerHand, probe.playedCards[i])) =>
        probe.result # "ok"

\* the value that ranks a card list: of its first card that is no joker, or
\* of the joker when it holds nothing else
AnchorValue(cards) ==
    LET others == {i \in 1..Len(cards) : cards[i].rank # "joker"}
    IN  IF others = {} THEN 15
        ELSE RANK_VALUES[cards[CHOOSE i \in others : \A j \in others : i <= j].rank]

\* C6: against a field that is not empty, an attempt that is not empty, is
\* held in the hand and has one rank (jokers aside) is accepted exactly when
\* it has as many cards as the field and its anchor value is strictly
\* greater than the field's.
C6_StrongerSameCount ==
    LET a == probe.playedCards
        h == probe.playerHand
        f == probe.field
    IN  (/\ probe.result # "none"
         /\ Len(f) > 0
         /\ Len(a) > 0
         /\ \A i \in 1..Len(a) : \E k \in 1..Len(h) : SameCard(h[k], a[i])
         /\ \A i, j \in 1..Len(a) :
                (a[i].rank # "joker" /\ a[j].rank # "joker") => a[i].rank = a[j].rank) =>
            (probe.result = "ok" <=> (Len(a) = Len(f) /\ AnchorValue(a) > AnchorValue(f)))

\* a single joker was accepted on a single ace
C6_JokerBeatsAce ==
    /\ probe.field = <<Card("s", "A")>>
    /\ probe.playedCards = <<Joker>>
    /\ probe.result = "ok"

\* C7 as stated: after an accepted play that holds an 8 the field is empty,
\* lastPlay is null and turnIndex is what it was.
C7_EightKeepsTurn ==
    [][\A c \in Conns : HoldsTurn(c) =>
         \A cards \in Attempts :
            (/\ \E k \in 1..Len(cards) : cards[k].rank = "8"
             /\ validatePlay(cards, TurnHand, field) = "ok"
             /\ PlayCards(c, cards)) =>
                /\ field' = <<>>
                /\ lastPlay' = NoPlay
                /\ turnIndex' = turnIndex
      ]_vars

\* C7 amended: after an accepted play that holds an 8 the field is empty and
\* lastPlay is null; turnIndex is what it was, unless the play took the
\* actor's last card while more than one other player has status 'playing':
\* then the turn goes to the next 'playing' seat after the actor.
C7_EightClears ==
    [][\A c \in Conns : HoldsTurn(c) =>
         \A cards \in Attempts :
            (/\ \E k \in 1..Len(cards) : cards[k].rank = "8"
             /\ validatePlay(cards, TurnHand, field) = "ok"
             /\ PlayCards(c, cards)) =>
                /\ field' = <<>>
                /\ lastPlay' = NoPlay
                /\ turnIndex' =
                     IF players'[turnIndex + 1].hand = <<>> /\ Cardinality(OthersPlaying) > 1
                     THEN NextPlayingSeat(players', turnIndex)
                     ELSE turnIndex
      ]_vars

\* a player has just gone out with an 8 and the round goes on
C7_WentOutWithEight ==
    /\ gameState = "playing"
    /\ field = <<>>
    /\ \E k \in 1..Len(sent) : sent[k].text = "8giri"
    /\ \E k \in 1..Len(sent) : sent[k].text = "finished"

\* C8: a pass of the turn-holder that brings passCount to the number of
\* players with status 'playing' (the passer no longer among them) or beyond
\* empties the field, zeroes passCount, nulls lastPlay, gives every player
\* without a rank the status 'playing' and hands the turn to the author of
\* lastPlay if seated and not finished, else to the next 'playing' seat
\* after the passer; any other pass changes only the passer's status,
\* passCount and turnIndex, the turn going to the next 'playing' seat.
C8_PassClearsOrAdvances ==
    [][\A c \in Conns : (HoldsTurn(c) /\ Pass(c)) =>
         LET me == turnIndex + 1
             author == {i \in 1..Len(players) :
                          /\ players[i].id = lastPlay.playerId
                          /\ players'[i].status # "finished"}
         IN  /\ UNCHANGED <<gameState, ranks, gameCount, limit, hostId, timers>>
             /\ Len(players') = Len(players)
             /\ IF passCount + 1 >= Cardinality(OthersPlaying)
                THEN /\ field' = <<>>
                     /\ passCount' = 0
                     /\ lastPlay' = NoPlay
                     /\ \A i \in 1..Len(players) :
                          players'[i] = [players[i] EXCEPT !.status =
                                            IF players[i].rank = 0 THEN "playing"
                                            ELSE IF i = me THEN "passed" ELSE @]
                     /\ turnIndex' = IF author # {}
                                     THEN (CHOOSE i \in author : TRUE) - 1
                                     ELSE NextPlayingSeat(players', turnIndex)
                ELSE /\ players' = [players EXCEPT ![me].status = "passed"]
                     /\ passCount' = passCount + 1
                     /\ turnIndex' = NextPlayingSeat(players', turnIndex)
                     /\ turnIndex' # -1
                     /\ UNCHANGED <<field, lastPlay>>
      ]_vars

\* everybody has just passed on the cards of a player who went out with them
C8_TableCleared ==
    /\ gameState = "playing"
    /\ field = <<>>
    /\ Len(ranks) > 0
    /\ \E k \in 1..Len(sent) : sent[k].text = "allPass"

\* C9: an accepted play that takes the actor's last card gives the actor
\* status 'finished', the next rank and the next place in ranks; if at most
\* one other player has status 'playing', that player is finished with the
\* rank after it, the round is over (state 'finished', or 'exchange' when
\* the round-limit policy moves on at once), the seated player at ranks[0]
\* has role daifugo, the last of ranks has role daifumin if more than two
\* players are seated, and everybody else is heimin.
C9_RoundEndRoles ==
    [][\A c \in Conns : HoldsTurn(c) =>
         \A cards \in Attempts :
            (/\ validatePlay(cards, TurnHand, field) = "ok"
             /\ PlayCards(c, cards)
             /\ players'[turnIndex + 1].hand = <<>>) =>
                /\ players'[turnIndex + 1].status = "finished"
                /\ players'[turnIndex + 1].rank = Len(ranks) + 1
                /\ Len(ranks') > Len(ranks)
                /\ SubSeq(ranks', 1, Len(ranks) + 1) = Append(ranks, c)
                /\ Cardinality(OthersPlaying) <= 1 =>
                     /\ \A i \in OthersPlaying :
                          /\ players'[i].status = "finished"
                          /\ players'[i].rank = Len(ranks) + 2
                          /\ ranks' = Append(Append(ranks, c), players[i].id)
                     /\ OthersPlaying = {} => ranks' = Append(ranks, c)
                     /\ gameState' \in {"finished", "exchange"}
                     /\ \A i \in 1..Len(players') :
                          players'[i].role =
                            IF players'[i].id = ranks'[1] THEN "daifugo"
                            ELSE IF players'[i].id = ranks'[Len(ranks')]
                                    /\ Len(players') > 2
                            THEN "daifumin"
                            ELSE "heimin"
      ]_vars

\* a play ends the round: the state leaves 'playing' and ranks has grown
RoundEnds ==
    /\ gameState = "playing"
    /\ gameState' \in {"finished", "exchange"}
    /\ ranks' # ranks

\* the round-limit policy at the end of a round
RoundEndPolicy ==
    RoundEnds =>
        IF limit # 0 /\ gameCount >= limit
        THEN /\ gameState' = "finished"
             /\ \A d \in Clients : \E k \in 1..Len(sent') :
                    sent'[k].type = "seriesOver" /\ sent'[k].to = d
             /\ timers' = [timers EXCEPT !["initializeGame"] = @ + 1]
        ELSE IF limit = 0
        THEN /\ gameState' = "finished"
             /\ \A k \in 1..Len(sent') :
                    sent'[k].type = "showContinueModal" => sent'[k].to = hostId
             /\ hostId \in Clients => \E k \in 1..Len(sent') :
                    sent'[k].type = "showContinueModal" /\ sent'[k].to = hostId
             /\ timers' = timers
        ELSE /\ gameState' = "exchange"
             /\ timers' = [timers EXCEPT !["exchangeAfterRound"] = @ + 1]

\* the reset scheduled at the end of a series leaves the room 'waiting'
ResetRuns ==
    timers'["initializeGame"] < timers["initializeGame"] => gameState' = "waiting"

\* the exchange step scheduled at the end of a round starts the next round
\* or schedules its start
ExchangeLeadsToRound ==
    timers'["exchangeAfterRound"] < timers["exchangeAfterRound"] =>
        /\ ~crashed'
        /\ \/ gameState' = "playing" /\ gameCount' = gameCount + 1
           \/ timers'["startNextRound"] > timers["startNextRound"]

\* C10: when a round ends, the series is declared over and the reset is
\* scheduled if the limit is reached, the host alone is asked if the series
\* is endless, and otherwise the state is 'exchange' with the exchange step
\* scheduled; the scheduled reset leaves the room 'waiting' and the
\* scheduled exchange step leads to the next round.
C10_RoundEndPolicy ==
    [][RoundEndPolicy /\ ResetRuns /\ ExchangeLeadsToRound]_vars

\* C11: in an endless series (limit 0) whose round is over (state
\* 'finished'), a continueGame with decision = true from the seated host
\* moves the state to 'exchange' and schedules the exchange step that leads
\* to the next round.
C11_ContinueLeavesFinished ==
    [][\A c \in Conns :
         (/\ conn[c] = "open"
          /\ gameState = "finished"
          /\ limit = 0
          /\ c = hostId
          /\ \E i \in 1..Len(players) : players[i].id = c
          /\ ContinueGame(c, TRUE)) =>
            /\ gameState' = "exchange"
            /\ \E kind \in ExchangeTimers : timers'[kind] > timers[kind]
      ]_vars

\* the seated players with hand, rank and role cleared
Cleared(ps) ==
    [i \in 1..Len(ps) |-> [ps[i] EXCEPT !.hand = <<>>, !.rank = 0, !.role = "heimin"]]

\* the same players in the same order, status aside
SamePlayers(ps, qs) ==
    /\ Len(ps) = Len(qs)
    /\ \A i \in 1..Len(ps) :
          [ps[i] EXCEPT !.status = "playing"] = [qs[i] EXCEPT !.status = "playing"]

\* C12: a continueGame with decision = false from the host that takes effect
\* leaves the room 'waiting' with the same players seated in the same order,
\* every hand empty, every rank null, every role heimin, and the same hostId.
C12_DeclineKeepsPlayers ==
    [][\A c \in Conns :
         (/\ conn[c] = "open"
          /\ c = hostId
          /\ ContinueGame(c, FALSE)
          /\ gameVars' # gameVars) =>
            /\ gameState' = "waiting"
            /\ SamePlayers(players', Cleared(players))
            /\ hostId' = hostId
      ]_vars

\* C13: a continueGame from a connection that is not the host, or sent while
\* the state is not 'finished', changes nothing in the room and schedules no
\* timer.
C13_ContinueOnlyWhenFinished ==
    [][\A c \in Conns : \A decision \in BOOLEAN :
         (/\ conn[c] = "open"
          /\ (c # hostId \/ gameState # "finished")
          /\ ContinueGame(c, decision)) =>
            UNCHANGED <<gameVars, timers>>
      ]_vars

\* C14: a startGame starts a round (round counter one up, state 'playing')
\* when its sender is the seated host, the state is 'waiting' and at least
\* two players are seated; in every other case it changes nothing in the
\* room: no deal, no new round, no timer.
C14_StartOnlyByHost ==
    [][\A c \in Conns : (conn[c] = "open" /\ StartGame(c)) =>
         IF /\ \E i \in 1..Len(players) : players[i].id = c
            /\ c = hostId
            /\ gameState = "waiting"
            /\ Len(players) >= 2
         THEN /\ gameCount' = gameCount + 1
              /\ gameState' = "playing"
         ELSE UNCHANGED <<gameVars, timers>>
      ]_vars

\* the host has just been told that a second player is needed
C14_NeedsTwo ==
    /\ gameState = "waiting"
    /\ Len(players) = 1
    /\ gameCount = 0
    /\ sent = <<Msg("errorMessage", "needTwo", hostId)>>

\* the cards of the deck
DeckCards == {createDeck[k] : k \in 1..DeckSize}

\* the hands hold every card of the deck and nothing else
HandsHoldDeck(ps) ==
    /\ HandTotal(ps) = DeckSize
    /\ \A d \in DeckCards :
          \E i \in 1..Len(ps) : \E k \in 1..Len(ps[i].hand) : ps[i].hand[k] = d

\* C15: right after a startNextRound that returned, the round counter is one
\* more than before, the state is 'playing', the field is empty, lastPlay is
\* null, passCount is 0, ranks is empty, the same players are seated, each
\* with status 'playing' and no rank, the hands together hold exactly the
\* cards of the deck, and turnIndex is a valid seat: the daifumin's if one
\* is seated.
C15_RoundStarted ==
    [][(gameCount' = gameCount + 1 /\ ~crashed') =>
         /\ gameState' = "playing"
         /\ field' = <<>>
         /\ lastPlay' = NoPlay
         /\ passCount' = 0
         /\ ranks' = <<>>
         /\ Len(players') = Len(players)
         /\ \A i \in 1..Len(players) :
              /\ players'[i].id = players[i].id
              /\ players'[i].role = players[i].role
              /\ players'[i].status = "playing"
              /\ players'[i].rank = 0
         /\ HandsHoldDeck(players')
         /\ turnIndex' \in 0..(Len(players') - 1)
         /\ (\E i \in 1..Len(players) : players[i].role = "daifumin") =>
                players'[turnIndex' + 1].role = "daifumin"
      ]_vars

\* the second round has just been dealt and the daifumin of the first holds
\* the turn, although not at seat 0
C15_DaifuminLeads ==
    /\ gameState = "playing"
    /\ gameCount = 2
    /\ field = <<>>
    /\ ranks = <<>>
    /\ HandsHoldDeck(players)
    /\ turnIndex \in 1..(Len(players) - 1)
    /\ players[turnIndex + 1].role = "daifumin"

\* a callback scheduled at the end of a round runs: the exchange step or the
\* reset after a series
TimerFires ==
    \E kind \in {"exchangeAfterRound", "initializeGame"} : timers'[kind] < timers[kind]

\* C16: a deferred callback scheduled at the end of a round (the exchange
\* step, the reset after a series) that runs when the room has meanwhile
\* been reset to 'waiting' does nothing: no deal, no change of state, no
\* round started, no lobby wiped, no exception.
C16_StaleTimerNoOp ==
    [][(TimerFires /\ gameState = "waiting") =>
          (UNCHANGED gameVars /\ ~crashed')]_vars

\* the players other than the one with the given id, in seating order
Without(ps, id) == SelectSeq(ps, LAMBDA p : p.id # id)

\* connection c is up and seated
Seated(c) == conn[c] = "open" /\ \E i \in 1..Len(players) : players[i].id = c

\* C17: when the disconnect of a seated player leaves fewer than two players
\* while the state is not 'waiting', the room is 'waiting' afterwards with
\* the remaining players still seated, their hands empty, and the progress
\* of the round cleared (field, lastPlay, passCount, ranks, turnIndex).
C17_ResetKeepsRemaining ==
    [][\A c \in Conns :
         (/\ Seated(c)
          /\ Close(c)
          /\ gameState # "waiting"
          /\ Len(players) - 1 < 2) =>
            /\ gameState' = "waiting"
            /\ Len(players') = Len(players) - 1
            /\ \A i \in 1..Len(players') :
                  /\ players'[i].id = Without(players, c)[i].id
                  /\ players'[i].hand = <<>>
            /\ field' = <<>>
            /\ lastPlay' = NoPlay
            /\ passCount' = 0
            /\ ranks' = <<>>
            /\ turnIndex' = -1
      ]_vars

\* C18: when the host disconnects and somebody else is seated, hostId becomes
\* the id of the first of the remaining players in seating order (the views
\* compute isHost from hostId); when a seated player who is not the host
\* disconnects, hostId stays what it was.
C18_HostHandover ==
    [][\A c \in Conns : (Seated(c) /\ Close(c)) =>
         IF c = hostId
         THEN Len(players) > 1 => hostId' = Without(players, c)[1].id
         ELSE hostId' = hostId
      ]_vars

\* C19: with somebody seated, hostId is the id of exactly one seated player;
\* with nobody seated, hostId is null.
C19_HostSeated ==
    IF Len(players) >= 1
    THEN Cardinality({i \in 1..Len(players) : players[i].id = hostId}) = 1
    ELSE hostId = 0

\* a join meets a room with every seat taken or a state other than 'waiting'
JoinRefused(c) ==
    /\ conn[c] = "open"
    /\ Len(players) >= 4 \/ gameState # "waiting"
    /\ \E gameLimit \in {0, MaxLimit} : Join(c, gameLimit)

\* no step seats more than four players or seats anybody outside 'waiting'
SeatsGuarded ==
    /\ Len(players') <= 4
    /\ gameState # "waiting" =>
          \A i \in 1..Len(players') : \E j \in 1..Len(players) : players'[i].id = players[j].id

C21_RegistryCodes ==
    [][/\ \A c \in Conns : \A gameLimit \in {0, MaxLimit} :
             CreateRoom(c, gameLimit) =>
                /\ \A k \in DOMAIN rooms : k \in DOMAIN rooms' /\ rooms'[k] = rooms[k]
                /\ Cardinality(DOMAIN rooms' \ DOMAIN rooms) = 1
       /\ \A k \in DOMAIN rooms \ DOMAIN rooms' :
             \E c \in Conns :
                /\ conn[c] = "open" /\ conn'[c] = "closed"
                /\ roomCode[c] = k
                /\ Len(rooms[k].players) = 1
                /\ rooms[k].players[1].id = c
       /\ \A k \in DOMAIN rooms' :
             /\ rooms'[k].code = k
             /\ Len(rooms'[k].players) > 0
      ]_vars

\* a createRoom has just been given the code of a room that was emptied: a
\* closed connection still carries that code
C21_CodeReused ==
    \E k \in DOMAIN rooms : \E c, h \in Conns :
        /\ conn[c] = "closed"
        /\ roomCode[c] = k
        /\ roomCode[h] = k
        /\ rooms[k].players = <<newPlayer(h)>>
        /\ sent = <<Msg("updateState", "", h)>>

\* C22: a connection is seated in at most one room and at most once; a
\* second createRoom or joinRoom on a connection seats its id nowhere.
C22_SeatedOnce == \A c \in Conns : conn[c] = "open" => SeatsOf(c) <= 1

\* the rooms a step registers, removes or changes
Touched ==
    {k \in DOMAIN rooms \cup DOMAIN rooms' :
        k \notin DOMAIN rooms \/ k \notin DOMAIN rooms' \/ rooms'[k] # rooms[k]}

\* a step that touches no room but R and sends only to connections of R
Isolated(R) ==
    /\ Touched \subseteq {R}
    /\ \A k \in 1..Len(sent') : roomCode'[sent'[k].to] = R

\* C24: a startGame, playCards, pass or disconnect of a connection touches
\* no room but the connection's and sends only to connections whose
\* roomCode is that room's; a joinRoom that is accepted touches only the
\* room it names and sends only to that room's connections; a joinRoom that
\* is refused touches no room and answers the requester alone.
C24_RoomsIsolated ==
    [][/\ \A c \in Conns :
             (\/ RoomStartGame(c)
              \/ RoomPass(c)
              \/ \E cards \in RoomCardsFrom(c) : RoomPlayCards(c, cards)
              \/ RoomClose(c)) => Isolated(roomCode[c])
       /\ \A c \in Conns : \A code \in RoomCodes :
             JoinRoom(c, code) =>
                \/ Isolated(code)
                \/ /\ Touched = {}
                   /\ \A k \in 1..Len(sent') : sent'[k].to = c
      ]_vars

\* a play has just been made in one room and announced to its two
\* connections while a connection seated in the other room is up
C24_TwoRooms ==
    \E R \in DOMAIN rooms : \E c \in Conns :
        /\ rooms[R].gameState = "playing"
        /\ rooms[R].field # <<>>
        /\ Len(sent) = 2
        /\ \A k \in 1..Len(sent) : roomCode[sent[k].to] = R
        /\ conn[c] = "open"
        /\ roomCode[c] # R
        /\ InRoom(c)

\* ---- C23
\* the hands of the seats other than id's, end to end
OtherCards(ps, id) ==
    LET F[k \in 0..Len(ps)] ==
            IF k = 0 THEN <<>>
            ELSE IF ps[k].id = id THEN F[k - 1] ELSE F[k - 1] \o ps[k].hand
    IN  F[Len(ps)]

\* where the hand of seat i starts in OtherCards
OtherOffset(ps, id, i) == Len(OtherCards(SubSeq(ps, 1, i - 1), id))

\* the rooms that differ from this one only in who among the other players
\* holds which of their cards: every hand keeps its size, id keeps its hand
Redeals(ps, id) ==
    LET pool == OtherCards(ps, id)
    IN  {[i \in 1..Len(ps) |->
            IF ps[i].id = id THEN ps[i]
            ELSE [ps[i] EXCEPT !.hand =
                    [k \in 1..Len(ps[i].hand) |-> pool[p[OtherOffset(ps, id, i) + k]]]]] :
         p \in Permutations(1..Len(pool))}

\* the updateState messages among the messages just sent
StatesSent == {k \in 1..Len(sent) : "state" \in DOMAIN sent[k]}

\* C23: broadcastGameState sends one updateState to every open client and to
\* nobody else; the state sent to a seated client carries that client's id
\* and exactly that client's hand; and it is the same state whatever cards
\* the other players hold, as long as every hand keeps its size: of the other
\* hands a client learns the sizes only.  A client that is not seated is sent
\* no hand at all.
C23_OwnHandOnly ==
    StatesSent # {} =>
        /\ StatesSent = 1..Len(sent)
        /\ Len(sent) = Cardinality(Clients)
        /\ \A c \in Clients : \E k \in StatesSent : sent[k].to = c
        /\ \A k \in StatesSent :
              LET p == sent[k].to
                  seat == SeatOf(players, p)
                  view == sent[k].state
              IN  /\ seat # 0 =>
                        /\ view.myId = p
                        /\ view.myHand = players[seat].hand
                        /\ \A i \in 1..Len(players) :
                              view.players[i].handCount = Len(players[i].hand)
                  /\ seat = 0 => "myHand" \notin DOMAIN view /\ view.myId = 0
                  /\ \A qs \in Redeals(players, p) :
                        personalizedState(qs, gameState, field, turnIndex,
                                          hostId, limit, p) = view

\* after a play two seated clients and a late-comer are sent their views
\* while the other two players still hold different cards
C23_ViewsSent ==
    /\ StatesSent # {}
    /\ Len(players) = ViewSeats
    /\ field # <<>>
    /\ \E k \in StatesSent : SeatOf(players, sent[k].to) = 0
    /\ \E k \in StatesSent :
          /\ SeatOf(players, sent[k].to) # 0
          /\ \E qs \in Redeals(players, sent[k].to) : qs # players

\* the same for getGameStateForPlayer: the state built for a seated client of
\* a room does not depend on which cards the others in the room hold
RoomViewOwnHandOnly ==
    \A code \in DOMAIN rooms : \A c \in Conns :
        LET room == rooms[code]
            view == getGameStateForPlayer(room, c)
            seat == SeatOf(room.players, c)
        IN  /\ view.myHand = IF seat # 0 THEN room.players[seat].hand ELSE <<>>
            /\ \A qs \in Redeals(room.players, c) :
                  getGameStateForPlayer([room EXCEPT !.players = qs], c) = view

\* ---- C25
\* the edges gameState may take
StateEdges ==
    {<<"waiting", "playing">>, <<"playing", "finished">>,
     <<"finished", "exchange">>, <<"finished", "waiting">>,
     <<"exchange", "playing">>}

\* the play that ends a round of a series with rounds left: the handler sets
\* 'finished' and then 'exchange' before it returns
RoundEndsIntoExchange ==
    /\ gameState = "playing" /\ gameState' = "exchange"
    /\ limit # 0 /\ ~seriesIsOver(limit, gameCount)
    /\ Len(ranks') > Len(ranks)
    /\ \E c \in Conns : \E cards \in CardsFrom(c) : PlayCards(c, cards)

\* the reset forced by a disconnect that leaves fewer than two players
ForcedReset ==
    /\ gameState # "waiting" /\ gameState' = "waiting"
    /\ \E c \in Conns : Close(c) /\ SeatOf(players, c) # 0 /\ Len(players) - 1 < 2

\* C25: every step that changes gameState follows one of the edges
\* waiting->playing, playing->finished, finished->exchange, finished->waiting,
\* exchange->playing (the round-ending play passes through 'finished' into
\* 'exchange' within one handler), or is the forced reset to waiting; and no
\* step deals a new round while the state is, and stays, 'playing'.
C25_StateEdges ==
    [][/\ gameState' # gameState =>
            \/ <<gameState, gameState'>> \in StateEdges
            \/ RoundEndsIntoExchange
            \/ ForcedReset
       /\ gameState = "playing" /\ gameState' = "playing" => gameCount' = gameCount]_vars

\* ---- C26
\* a is a prefix of b
IsPrefix(a, b) == Len(a) <= Len(b) /\ SubSeq(b, 1, Len(a)) = a

\* a step of startNextRound: the round counter goes up
RoundStarts == gameCount' = gameCount + 1

\* C26 (states): ranks is never longer than the list of seated players and
\* holds no id twice.
C26_RanksBounded ==
    /\ Len(ranks) <= Len(players)
    /\ \A i, j \in 1..Len(ranks) : i # j => ranks[i] # ranks[j]

\* C26 (steps): ranks is empty right after a round start, and a step within
\* a round only appends to it.
C26_RanksGrow ==
    [][/\ RoundStarts => ranks' = <<>>
       /\ (gameCount' = gameCount /\ gameState = "playing") => IsPrefix(ranks, ranks')]_vars

\* ---- C27
\* the probe holds a finished call of this function
Called(fn) == "call" \in DOMAIN probe /\ probe.call = fn /\ probe.done

\* C27: findNextPlayer returns the first seat with status 'playing' met when
\* going round the table from the seat after the current index (the current
\* seat itself comes last), also for the sentinel -1 and for the index one
\* past the last seat; it returns -1 exactly when no player is 'playing';
\* the seat returned is 'playing'; the players are left as they were.
C27_FirstPlayingSeat ==
    Called("findNextPlayer") =>
        LET ps == probe.players
            r == probe.result
        IN  /\ r = NextPlayingSeat(ps, probe.turnIndex)
            /\ r = -1 <=> Playing(ps) = {}
            /\ r # -1 => r \in 0..(Len(ps) - 1) /\ ps[r + 1].status = "playing"
            /\ probe.after = ps

\* the call came with the index one past the last seat of a full table: the
\* scan starts at seat 1, skips the player who passed and returns seat 2;
\* seat 0, though 'playing', comes later in the circle
C27_Called ==
    /\ Called("findNextPlayer")
    /\ Len(probe.players) = MaxPlayers
    /\ probe.turnIndex = Len(probe.players)
    /\ probe.result = 2
    /\ probe.players[1].status = "playing"
    /\ probe.players[2].status = "passed"

\* ---- C28
\* the cards of a sequence
CardSet(s) == {s[k] : k \in 1..Len(s)}

\* C28: for two, three or four players shuffleAndDeal leaves in the hand of
\* seat s exactly the cards k of the shuffled deck with k mod N = s (k and s
\* counted from 0); nothing of the old hands stays; the hands partition the
\* deck and the largest and the smallest differ by at most one card.
C28_RoundRobinDeal ==
    Called("shuffleAndDeal") =>
        LET deck == probe.deck
            ps == probe.after
            N == Len(probe.players)
        IN  /\ Len(ps) = N /\ N \in 2..MaxPlayers
            /\ \A s \in 0..(N - 1) :
                  /\ CardSet(ps[s + 1].hand) =
                        {deck[k + 1] : k \in {j \in 0..(Len(deck) - 1) : j % N = s}}
                  /\ Len(ps[s + 1].hand) = Cardinality(CardSet(ps[s + 1].hand))
            /\ \A s, t \in 1..N :
                  /\ s # t => CardSet(ps[s].hand) \cap CardSet(ps[t].hand) = {}
                  /\ Len(ps[s].hand) - Len(ps[t].hand) <= 1
            /\ UNION {CardSet(ps[s].hand) : s \in 1..N} = CardSet(deck)
            /\ HandTotal(ps) = Len(deck)

\* a deal to three players who held cards before, the deck not dividing evenly
C28_Dealt ==
    /\ Called("shuffleAndDeal")
    /\ Len(probe.players) = 3
    /\ probe.players[2].hand # <<>>
    /\ Len(probe.after[1].hand) = 2 /\ Len(probe.after[3].hand) = 1
    /\ probe.deck # DealDeck

\* ---- C29
\* s holds every card of t at least as often as t does
HoldsAll(s, t) == \A k \in 1..Len(t) : Count(s, t[k]) >= Count(t, t[k])

\* handleCardExchange runs with a daifugo and a daifumin seated
ExchangeRuns ==
    /\ SeatWithRole(players, "daifugo") # 0
    /\ SeatWithRole(players, "daifumin") # 0
    /\ Len(players) >= 2
    /\ \E kind \in ExchangeTimers : TimerHandleCardExchange(kind)

\* C29: when handleCardExchange runs with a daifugo and a daifumin seated,
\* afterwards the daifugo holds the two highest cards the daifumin held, the
\* daifumin holds the two lowest cards the daifugo held, and the two hands
\* together hold the same cards as before.
C29_ExchangeSwaps ==
    [][ExchangeRuns =>
        LET go == SeatWithRole(players, "daifugo")
            min == SeatWithRole(players, "daifumin")
            both == players[go].hand \o players[min].hand
            bothAfter == players'[go].hand \o players'[min].hand
        IN  /\ HoldsAll(players'[go].hand, LastTwo(sortHand(players[min].hand)))
            /\ HoldsAll(players'[min].hand, FirstTwo(sortHand(players[go].hand)))
            /\ Len(both) = Len(bothAfter)
            /\ HoldsAll(both, bothAfter) /\ HoldsAll(bothAfter, both)]_vars

\* ---- C30
\* the play of connection c is accepted, lists no 8 and leaves cards in the
\* actor's hand
PlainPlay(c, cards) ==
    /\ HoldsTurn(c)
    /\ validatePlay(cards, TurnHand, field) = "ok"
    /\ ~ \E k \in 1..Len(cards) : cards[k].rank = "8"
    /\ PlayCards(c, cards)
    /\ players'[turnIndex + 1].hand # <<>>

\* what such a play does to everything but the actor's hand
PlainPlayEffects(c, cards) ==
    /\ field' = cards
    /\ lastPlay' = [playerId |-> c, cards |-> cards]
    /\ passCount' = 0
    /\ Len(players') = Len(players)
    /\ \A i \in 1..Len(players) : i # turnIndex + 1 =>
          /\ players'[i].hand = players[i].hand
          /\ players'[i].status = players[i].status
    /\ turnIndex' = NextPlayingSeat(players', turnIndex)

\* C30: after an accepted play without an 8 that does not empty the hand,
\* the actor's hand is the old hand less exactly the played cards (card by
\* card, with multiplicity), the field is the played cards, lastPlay names
\* the actor and the cards, passCount is 0, the other players' hands and
\* statuses are as before, and the turn is at the next 'playing' seat after
\* the actor.
C30_PlainPlay ==
    [][\A c \in Conns : \A cards \in Attempts :
          PlainPlay(c, cards) =>
             /\ PlainPlayEffects(c, cards)
             /\ \A card \in CardsOut :
                   Count(players'[turnIndex + 1].hand, card) + Count(cards, card)
                      = Count(TurnHand, card)]_vars

\* ---- C31
\* what each check of the validator looks for, stated on the attempt alone
EmptySelection(a) == Len(a) = 0
NotHeld(a, h) == \E i \in 1..Len(a) : \A k \in 1..Len(h) : ~SameCard(h[k], a[i])
TwoRanks(a) ==
    \E i, j \in 1..Len(a) :
        a[i].rank # "joker" /\ a[j].rank # "joker" /\ a[i].rank # a[j].rank
WrongCount(a, f) == Len(f) > 0 /\ Len(a) # Len(f)
NotStronger(a, f) == Len(f) > 0 /\ AnchorValue(a) <= AnchorValue(f)

\* the reason of the first check that fails, in the order of the checks
FirstFailure(a, h, f) ==
    IF EmptySelection(a) THEN "empty"
    ELSE IF NotHeld(a, h) THEN "notInHand"
    ELSE IF TwoRanks(a) THEN "mixedRanks"
    ELSE IF WrongCount(a, f) THEN "countMismatch"
    ELSE IF NotStronger(a, f) THEN "tooWeak"
    ELSE "ok"

\* C31: validatePlay rejects every attempt that holds two cards of different
\* ranks, jokers aside; on an empty field it accepts every attempt that is
\* not empty, lists only cards of the hand and has one rank, jokers aside;
\* and its answer is the first failing check in the order empty selection,
\* card not in hand, mixed ranks, count mismatch, too weak.
C31_ChecksInOrder ==
    LET a == probe.playedCards
        h == probe.playerHand
        f == probe.field
    IN  probe.result # "none" =>
            /\ TwoRanks(a) => probe.result # "ok"
            /\ (f = <<>> /\ ~EmptySelection(a) /\ ~NotHeld(a, h) /\ ~TwoRanks(a)) =>
                    probe.result = "ok"
            /\ probe.result = FirstFailure(a, h, f)

\* an attempt of two ranks with a card the hand does not hold, of the wrong
\* count for the field, was answered with the membership failure
C31_EarlierCheckWins ==
    /\ probe.result = "notInHand"
    /\ TwoRanks(probe.playedCards)
    /\ WrongCount(probe.playedCards, probe.field)

\* ---- C32
\* a handler that ran with the turn holder's message left turnIndex at the
\* value findNextPlayer returns when nobody is 'playing'
NoNextPlayer ==
    /\ gameState = "playing"
    /\ turnIndex' = -1
    /\ \E c \in Conns :
          /\ InTurn(c)
          /\ \/ Pass(c)
             \/ \E cards \in CardsFrom(c) : PlayCards(c, cards)

\* C32: when findNextPlayer finds no 'playing' player for a handler during
\* a round, the room leaves 'playing' instead of staying in the round with
\* turnIndex -1.
C32_NoPlayerEndsRound ==
    [][NoNextPlayer => gameState' # "playing"]_vars

\* ---- C33
\* C33: in the multi-room server an accepted play that empties the actor's
\* hand leaves the actor 'finished' with a rank, and the room 'finished'
\* once at most one player is still 'playing'.
C33_EmptyHandFinishes ==
    [][\A c \in Conns : \A cards \in RoomCardsFrom(c) :
          LET code == roomCode[c]
              me == SeatOf(rooms[code].players, c)
          IN  (/\ RoomInTurn(c)
               /\ validatePlay(cards, rooms[code].players[me].hand, rooms[code].field) = "ok"
               /\ RoomPlayCards(c, cards)
               /\ rooms'[code].players[me].hand = <<>>) =>
                  /\ rooms'[code].players[me].status = "finished"
                  /\ rooms'[code].players[me].rank # 0
                  /\ Cardinality(Playing(rooms'[code].players)) <= 1 =>
                        rooms'[code].gameState = "finished"]_vars

\* ---- C34
\* C34: in the auto-start revision no step taken while a round is being
\* played ('playing') deals again: the round counter is not incremented
\* before the round has left 'playing'.
C34_NoSecondDeal ==
    [][gameState = "playing" => gameCount' # gameCount + 1]_vars

\* ---- C35
\* C35: in the multi-room server every id seated in a registered room is
\* the id of an open connection whose roomCode is the code of that room,
\* and a room every connection of which has closed is no longer registered.
C35_SeatsAreLive ==
    /\ \A k \in DOMAIN rooms : \A i \in 1..Len(rooms[k].players) :
          LET c == rooms[k].players[i].id
          IN  conn[c] = "open" /\ roomCode[c] = k
    /\ (\A c \in Conns : roomCode[c] # NoCode => conn[c] = "closed")
          => DOMAIN rooms = {}

\* ---- C36
\* the seated players who have not finished, the author of lastPlay apart
Answerers ==
    {i \in 1..Len(players) :
        players[i].status # "finished" /\ players[i].id # lastPlay.playerId}

\* a pass of the turn-holder clears a table that holds a play
PassClearsTable ==
    /\ lastPlay # NoPlay
    /\ field # <<>>
    /\ field' = <<>>
    /\ \E c \in Conns : InTurn(c) /\ Pass(c)

\* C36: whenever a pass clears the table, every seated player who has not
\* finished, the author of lastPlay apart, has passed since lastPlay was
\* made: the passes counted since that play (passCount, set to 0 by every
\* accepted play, and the clearing pass) are at least as many as those
\* players.
C36_ClearedByAllOthers ==
    [][PassClearsTable => passCount + 1 >= Cardinality(Answerers)]_vars

\* ---- C37
\* the places of an id in ranks
PlacesOf(rk, id) == {k \in 1..Len(rk) : rk[k] = id}

\* C37: when a play ends the round, every seated player has status
\* 'finished' and a rank, ranks holds the id of every seated player exactly
\* once, and the player given the role daifumin is one who still holds
\* cards; a player who had passed is ranked like the others.
C37_EveryoneRanked ==
    [][RoundEnds =>
         /\ \A i \in 1..Len(players') :
               /\ players'[i].status = "finished"
               /\ players'[i].rank # 0
               /\ Cardinality(PlacesOf(ranks', players'[i].id)) = 1
         /\ \A i \in 1..Len(players') :
               players'[i].role = "daifumin" => players'[i].hand # <<>>
      ]_vars

\* ---- C38
\* C38: in every state of a round in play with two or more seated players
\* some open connection is seated and holds the turn, so that the guard in
\* front of playCards and pass lets its pass through, also after a
\* disconnect: turnIndex never points past the players or at nobody.
C38_SomeoneCanAct ==
    (gameState = "playing" /\ Len(players) >= 2) =>
        \E c \in Conns : conn[c] = "open" /\ InTurn(c)

\* ---- C39
\* how often a card occurs in a list of cards
Occurs(cs, card) == Cardinality({k \in 1..Len(cs) : cs[k] = card})

\* how often a card occurs in the hands and on the field together
OnTable(card) ==
    LET InHands[i \in 0..Len(players)] ==
            IF i = 0 THEN 0 ELSE InHands[i - 1] + Occurs(players[i].hand, card)
    IN  InHands[Len(players)] + Occurs(field, card)

\* the cards in a hand or on the field
CardsOnTable ==
    {field[k] : k \in 1..Len(field)}
       \cup UNION {{players[i].hand[k] : k \in 1..Len(players[i].hand)} :
                      i \in 1..Len(players)}

\* C39: in every state of a round no card occurs twice in the hands and the
\* field taken together.
C39_NoCardTwice ==
    gameState = "playing" => \A card \in CardsOnTable : OnTable(card) <= 1

\* ---- C40
\* the round that follows an exchange starts: the scheduled startNextRound
\* fires in state 'exchange' with the daifugo and the daifumin seated and
\* cards in the hands
RoundAfterExchange ==
    /\ gameState = "exchange"
    /\ SeatWithRole(players, "daifugo") # 0
    /\ SeatWithRole(players, "daifumin") # 0
    /\ HandTotal(players) > 0
    /\ \A kind \in ExchangeTimers : timers[kind] = 0
    /\ TimerStartNextRound
    /\ gameState' = "playing"

\* C40: the exchange reaches the round that follows it: when that round
\* starts, the daifugo comes out of the exchange with cards (those received
\* from the daifumin) and holds at the first turn of the round at least one
\* of them.
C40_ExchangeReachesRound ==
    [][RoundAfterExchange =>
         LET go == SeatWithRole(players, "daifugo")
             received == players[go].hand
         IN  /\ received # <<>>
             /\ \E k \in 1..Len(received) :
                   Count(players'[go].hand, received[k]) > 0]_vars

====
